---------------------------- MODULE Spec2Model ----------------------------
(***************************************************************************)
(* A model of the monkey interpreter: the lexer (src/lib/lexer), the Pratt *)
(* parser and the AST printer (src/lib/parser), the tree-walking evaluator *)
(* with its environments (src/lib/eval).                                   *)
(*                                                                         *)
(* Source text is a sequence of bytes; a byte is written as a one-letter   *)
(* string and the byte 0 as NUL.  An i64 literal is carried as its         *)
(* canonical decimal digits (no leading zero), which is what               *)
(* str::parse::<i64> followed by Display gives for a non-negative value.   *)
(***************************************************************************)
EXTENDS Integers, Sequences, FiniteSets, TLC

VARIABLES
    sample,     \* the input as it was chosen: words, a chain, or the bytes
    source,     \* the input String handed to Lexer::new
    pc,         \* where the run stands
    lexer,      \* the Lexer struct (SpecLex steps it one next_token at a time)
    toks,       \* the tokens next_token has returned so far, in order
    parsed,     \* what Parser::parse_program returned
    parser,     \* the Parser after parse_program, with its fetched and trace
    printed,    \* the Display text of the parsed expression
    reparsed,   \* what parse_program returned for the printed text
    heap,       \* the Rc<RefCell<Environment>> cells, by address 1..Len(heap)
    log,        \* what the evaluator did so far, in order
    idx,        \* the index of the next top-level statement of evaluate's loop
    result      \* the last statement's Result in evaluate's loop, then evaluate's

vars == <<sample, source, pc, lexer, toks, parsed, parser, printed, reparsed, heap, log,
          idx, result>>

lexVars == <<lexer, toks>>
parVars == <<parsed, parser, printed, reparsed>>
evalVars == <<heap, log, idx, result>>

-----------------------------------------------------------------------------
(* Bytes and spelling                                                      *)

NUL == "NUL"

Whitespace == {" ", "\t", "\n", "\r"}

LowerCase ==
    {"a", "b", "c", "d", "e", "f", "g", "h", "i", "j", "k", "l", "m",
     "n", "o", "p", "q", "r", "s", "t", "u", "v", "w", "x", "y", "z"}

UpperCase ==
    {"A", "B", "C", "D", "E", "F", "G", "H", "I", "J", "K", "L", "M",
     "N", "O", "P", "Q", "R", "S", "T", "U", "V", "W", "X", "Y", "Z"}

Digits == {"0", "1", "2", "3", "4", "5", "6", "7", "8", "9"}

\* The spelling of the words the model writes or reads, byte by byte.
Spell == [
  fn |-> <<"f", "n">>,
  let |-> <<"l", "e", "t">>,
  if |-> <<"i", "f">>,
  else |-> <<"e", "l", "s", "e">>,
  return |-> <<"r", "e", "t", "u", "r", "n">>,
  true |-> <<"t", "r", "u", "e">>,
  false |-> <<"f", "a", "l", "s", "e">>,
  Identifier |-> <<"I", "d", "e", "n", "t", "i", "f", "i", "e", "r">>,
  String |-> <<"S", "t", "r", "i", "n", "g">>,
  Integer |-> <<"I", "n", "t", "e", "g", "e", "r">>,
  Prefix |-> <<"P", "r", "e", "f", "i", "x">>,
  Infix |-> <<"I", "n", "f", "i", "x">>,
  Boolean |-> <<"B", "o", "o", "l", "e", "a", "n">>,
  If |-> <<"I", "f">>,
  Function |-> <<"F", "u", "n", "c", "t", "i", "o", "n">>,
  Call |-> <<"C", "a", "l", "l">>,
  operator |-> <<"o", "p", "e", "r", "a", "t", "o", "r">>,
  right |-> <<"r", "i", "g", "h", "t">>,
  left |-> <<"l", "e", "f", "t">>,
  condition |-> <<"c", "o", "n", "d", "i", "t", "i", "o", "n">>,
  consequence |-> <<"c", "o", "n", "s", "e", "q", "u", "e", "n", "c", "e">>,
  alternative |-> <<"a", "l", "t", "e", "r", "n", "a", "t", "i", "v", "e">>,
  parameters |-> <<"p", "a", "r", "a", "m", "e", "t", "e", "r", "s">>,
  body |-> <<"b", "o", "d", "y">>,
  function |-> <<"f", "u", "n", "c", "t", "i", "o", "n">>,
  arguments |-> <<"a", "r", "g", "u", "m", "e", "n", "t", "s">>,
  Block |-> <<"B", "l", "o", "c", "k">>,
  Expression |-> <<"E", "x", "p", "r", "e", "s", "s", "i", "o", "n">>,
  Return |-> <<"R", "e", "t", "u", "r", "n">>,
  Let |-> <<"L", "e", "t">>,
  Some |-> <<"S", "o", "m", "e">>,
  None |-> <<"N", "o", "n", "e">>,
  identifier |-> <<"i", "d", "e", "n", "t", "i", "f", "i", "e", "r">>,
  value |-> <<"v", "a", "l", "u", "e">>,
  Bang |-> <<"B", "a", "n", "g">>,
  Minus |-> <<"M", "i", "n", "u", "s">>,
  Plus |-> <<"P", "l", "u", "s">>,
  Slash |-> <<"S", "l", "a", "s", "h">>,
  Asterisk |-> <<"A", "s", "t", "e", "r", "i", "s", "k">>,
  Eq |-> <<"E", "q">>,
  NotEq |-> <<"N", "o", "t", "E", "q">>,
  LT |-> <<"L", "T">>,
  GT |-> <<"G", "T">>,
  foo |-> <<"f", "o", "o">>,
  bar |-> <<"b", "a", "r">>,
  add |-> <<"a", "d", "d">>,
  newAdder |-> <<"n", "e", "w", "A", "d", "d", "e", "r">>,
  addTwo |-> <<"a", "d", "d", "T", "w", "o">>
]

\* The bytes of one word: its spelling, or the word itself when it is one byte.
Word(w) ==
    CASE w \in DOMAIN Spell -> Spell[w]
      [] w = "==" -> <<"=", "=">>
      [] w = "!=" -> <<"!", "=">>
      [] OTHER -> <<w>>

RECURSIVE Words(_)
\* The bytes of a sequence of words, one space after each.
Words(ws) ==
    IF ws = <<>> THEN <<>>
    ELSE Word(Head(ws)) \o <<" ">> \o Words(Tail(ws))

\* The({body : x \in {e}}) is body with x bound to the value of e, as a
\* Rust let binding: e is evaluated once.
The(S) == CHOOSE y \in S : TRUE

-----------------------------------------------------------------------------
(* Lexer: src/lib/lexer/mod.rs                                             *)

\* Lexer::read_char
read_char(l) ==
    [l EXCEPT !.ch = IF l.read_position >= Len(l.input) THEN NUL
                     ELSE l.input[l.read_position + 1],
              !.position = l.read_position,
              !.read_position = l.read_position + 1]

\* Lexer::new
LexerNew(input) ==
    read_char([input |-> input, position |-> 0, read_position |-> 0, ch |-> NUL])

is_letter(ch) == ch \in LowerCase \/ ch \in UpperCase \/ ch = "_"

is_digit(ch) == ch \in Digits

\* a peek that looks at the current byte
peek_char_Current(l) == l.ch

\* Lexer::peek_char
peek_char(l) ==
    IF l.read_position >= Len(l.input) THEN NUL ELSE l.input[l.read_position + 1]

\* &self.input[from..to], byte offsets counted from 0
Slice(input, from, to) == SubSeq(input, from + 1, to)

RECURSIVE skip_whitespace(_)
skip_whitespace(l) ==
    IF l.ch \in Whitespace THEN skip_whitespace(read_char(l)) ELSE l

RECURSIVE ReadWhile(_, _)
\* while self.is_letter(self.ch) { self.read_char() }, and the same for digits
ReadWhile(l, digits) ==
    IF (IF digits THEN is_digit(l.ch) ELSE is_letter(l.ch))
    THEN ReadWhile(read_char(l), digits)
    ELSE l

\* i64::MAX = 9223372036854775807
I64MaxDigits ==
    <<"9", "2", "2", "3", "3", "7", "2", "0", "3", "6",
      "8", "5", "4", "7", "7", "5", "8", "0", "7">>

DigitValue ==
    [d \in Digits |->
        CASE d = "0" -> 0 [] d = "1" -> 1 [] d = "2" -> 2 [] d = "3" -> 3
          [] d = "4" -> 4 [] d = "5" -> 5 [] d = "6" -> 6 [] d = "7" -> 7
          [] d = "8" -> 8 [] d = "9" -> 9]

RECURSIVE StripZeros(_)
StripZeros(ds) ==
    IF Len(ds) > 1 /\ Head(ds) = "0" THEN StripZeros(Tail(ds)) ELSE ds

RECURSIVE DigitsLeq(_, _)
\* two digit strings of the same length, compared as numbers
DigitsLeq(a, b) ==
    IF a = <<>> THEN TRUE
    ELSE IF DigitValue[Head(a)] < DigitValue[Head(b)] THEN TRUE
    ELSE IF DigitValue[Head(a)] > DigitValue[Head(b)] THEN FALSE
    ELSE DigitsLeq(Tail(a), Tail(b))

\* str::parse::<i64> on a non-empty run of digits: Ok with the value, or Err
\* (PosOverflow) when the value is above i64::MAX.
ParseI64(ds) ==
    The({ IF \/ Len(c) < Len(I64MaxDigits)
             \/ Len(c) = Len(I64MaxDigits) /\ DigitsLeq(c, I64MaxDigits)
          THEN [ok |-> TRUE, int |-> c]
          ELSE [ok |-> FALSE, int |-> <<>>]
          : c \in {StripZeros(ds)} })

\* Lexer::read_int: the unwrap panics when parse gives Err
read_int(l) ==
    The({ The({ [l |-> l2, panic |-> ~r.ok, int |-> r.int]
                : r \in {ParseI64(Slice(l2.input, l.position, l2.position))} })
          : l2 \in {ReadWhile(l, TRUE)} })

\* Lexer::read_identifier
read_identifier(l) ==
    The({ [l |-> l2, literal |-> Slice(l2.input, l.position, l2.position)]
          : l2 \in {ReadWhile(l, FALSE)} })

RECURSIVE ReadToQuote(_)
\* loop { self.read_char(); if self.ch == b'"' || self.ch == 0 { break } }
ReadToQuote(l) ==
    The({ IF l2.ch = "\"" \/ l2.ch = NUL THEN l2 ELSE ReadToQuote(l2)
          : l2 \in {read_char(l)} })

Tok(type) == [type |-> type]

\* Lexer::read_string
read_string(l) ==
    The({ [l |-> l2,
           tok |-> [type |-> "StringLiteral",
                    lit |-> Slice(l2.input, l.position + 1, l2.position)]]
          : l2 \in {ReadToQuote(l)} })

\* the keyword match of next_token
Keyword(literal) ==
    CASE literal = Spell.fn -> Tok("Function")
      [] literal = Spell.let -> Tok("Let")
      [] literal = Spell.if -> Tok("If")
      [] literal = Spell.else -> Tok("Else")
      [] literal = Spell.return -> Tok("Return")
      [] literal = Spell.true -> Tok("True")
      [] literal = Spell.false -> Tok("False")
      [] OTHER -> [type |-> "Identifier", lit |-> literal]

\* the one-byte tokens of next_token's match
Punct ==
    [c \in {"+", "-", "/", "*", "<", ">", ";", ",", "(", ")", "{", "}"} |->
        CASE c = "+" -> Tok("Plus") [] c = "-" -> Tok("Minus")
          [] c = "/" -> Tok("Slash") [] c = "*" -> Tok("Asterisk")
          [] c = "<" -> Tok("LT") [] c = ">" -> Tok("GT")
          [] c = ";" -> Tok("SemiColon") [] c = "," -> Tok("Comma")
          [] c = "(" -> Tok("LParen") [] c = ")" -> Tok("RParen")
          [] c = "{" -> Tok("LBrace") [] c = "}" -> Tok("RBrace")]

\* a call of next_token that returns tok
Returned(l, tok) == [l |-> l, tok |-> tok, panic |-> FALSE]

\* the match of next_token on self.ch, after skip_whitespace
MatchCh(l) ==
    CASE l.ch = "=" ->
            IF peek_char(l) = "="
            THEN Returned(read_char(read_char(l)), Tok("Eq"))
            ELSE Returned(read_char(l), Tok("Assign"))
      [] l.ch = "!" ->
            IF peek_char(l) = "="
            THEN Returned(read_char(read_char(l)), Tok("NotEq"))
            ELSE Returned(read_char(l), Tok("Bang"))
      [] l.ch \in DOMAIN Punct -> Returned(read_char(l), Punct[l.ch])
      [] l.ch = "\"" ->
            The({ Returned(read_char(r.l), r.tok) : r \in {read_string(l)} })
      [] l.ch = NUL -> Returned(read_char(l), Tok("EOF"))
      [] OTHER ->
            IF is_letter(l.ch)
            THEN The({ Returned(r.l, Keyword(r.literal)) : r \in {read_identifier(l)} })
            ELSE IF is_digit(l.ch)
            THEN The({ [l |-> r.l, tok |-> [type |-> "IntLiteral", int |-> r.int],
                        panic |-> r.panic]
                       : r \in {read_int(l)} })
            ELSE Returned(read_char(l), Tok("Illegal"))

\* Lexer::next_token: the lexer after the call and the token returned; panic
\* when the call does not return (read_int's unwrap).
next_token(l0) == MatchCh(skip_whitespace(l0))

-----------------------------------------------------------------------------
(* AST: src/lib/parser/ast.rs                                              *)

\* enum Precedence, in its declared (derived Ord) order
Precedence ==
    [Lowest |-> 0, Equals |-> 1, LessGreater |-> 2, Sum |-> 3,
     Product |-> 4, Prefix |-> 5, Call |-> 6]

\* Token::precedence with the levels of the sum and the product operators
\* exchanged
TokenPrecedenceExchanged(tok) ==
    CASE tok.type \in {"Eq", "NotEq"} -> Precedence.Equals
      [] tok.type \in {"LT", "GT"} -> Precedence.LessGreater
      [] tok.type \in {"Plus", "Minus"} -> Precedence.Product
      [] tok.type \in {"Asterisk", "Slash"} -> Precedence.Sum
      [] tok.type = "LParen" -> Precedence.Call
      [] OTHER -> Precedence.Lowest

\* Token::precedence
TokenPrecedence(tok) ==
    CASE tok.type \in {"Eq", "NotEq"} -> Precedence.Equals
      [] tok.type \in {"LT", "GT"} -> Precedence.LessGreater
      [] tok.type \in {"Plus", "Minus"} -> Precedence.Sum
      [] tok.type \in {"Asterisk", "Slash"} -> Precedence.Product
      [] tok.type = "LParen" -> Precedence.Call
      [] OTHER -> Precedence.Lowest

\* enum Expression
IdentifierExpr(name) == [type |-> "Identifier", value |-> name]
StringExpr(str) == [type |-> "String", value |-> str]
IntegerExpr(int) == [type |-> "Integer", value |-> int]
BooleanExpr(b) == [type |-> "Boolean", value |-> b]
PrefixExpr(op, right) == [type |-> "Prefix", operator |-> op, right |-> right]
InfixExpr(op, left, right) ==
    [type |-> "Infix", operator |-> op, left |-> left, right |-> right]
\* alternative is an Option: <<>> for None, <<block>> for Some(block)
IfExpr(condition, consequence, alternative) ==
    [type |-> "If", condition |-> condition, consequence |-> consequence,
     alternative |-> alternative]
FunctionExpr(parameters, body) ==
    [type |-> "Function", parameters |-> parameters, body |-> body]
CallExpr(function, arguments) ==
    [type |-> "Call", function |-> function, arguments |-> arguments]

\* enum Statement
LetStmt(identifier, value) ==
    [type |-> "Let", identifier |-> identifier, value |-> value]
ReturnStmt(value) == [type |-> "Return", value |-> value]
ExpressionStmt(value) == [type |-> "Expression", value |-> value]
BlockStmt(statements) == [type |-> "Block", statements |-> statements]

-----------------------------------------------------------------------------
(* Parser: src/lib/parser/mod.rs                                           *)
(*                                                                         *)
(* Every parse function takes the Parser struct p and gives a record with  *)
(* the struct after the call and the Result: ok with val, or not ok with   *)
(* err (what the ? operator hands on).  A panic of the lexer inside        *)
(* next_token is kept in p.panicked and ends the run in ParseProgram.      *)
(*                                                                         *)
(* Two fields of p are not in the struct: fetched, the tokens the lexer    *)
(* has returned so far, in order (current_token is the last but one and    *)
(* peek_token the last), and trace, what the parse functions did so far.   *)

POk(p, val) == [p |-> p, ok |-> TRUE, val |-> val]
PErr(p, err) == [p |-> p, ok |-> FALSE, err |-> err]

UnexpectedToken(expected, actual) ==
    [kind |-> "UnexpectedToken", expected |-> expected, actual |-> actual]
InvalidToken(tok) == [kind |-> "InvalidToken", token |-> tok]

\* p, with one more event in its trace
Trace(p, event) == [p EXCEPT !.trace = Append(@, event)]

\* Err(err) made at a site of the parser; the trace gets the site and how
\* many tokens were fetched when it was made.
Fail(p, site, err) ==
    PErr(Trace(p, [ev |-> "error", site |-> site, err |-> err,
                   at |-> Len(p.fetched)]),
         err)

\* The trace's entry for the start of an iteration of one of the parser's
\* loops: tok is the token the loop's condition has just tested.
Iteration(loop, tok, p) ==
    Trace(p, [ev |-> "iteration", loop |-> loop, tok |-> tok,
              at |-> Len(p.fetched)])

\* The trace's entry for the end of an iteration that began at before.
Iterated(loop, before, after) ==
    Trace(after, [ev |-> "iterated", loop |-> loop,
                  from |-> Len(before.fetched), to |-> Len(after.fetched)])

\* Parser::next_token
p_next_token(p) ==
    The({ [l |-> r.l, current_token |-> p.peek_token, peek_token |-> r.tok,
           panicked |-> p.panicked \/ r.panic,
           fetched |-> Append(p.fetched, r.tok), trace |-> p.trace]
          : r \in {next_token(p.l)} })

\* Parser::new
ParserNew(l) ==
    p_next_token(p_next_token(
        [l |-> l, current_token |-> Tok("Illegal"), peek_token |-> Tok("Illegal"),
         panicked |-> FALSE, fetched |-> <<>>, trace |-> <<>>]))

\* Parser::is_current_token, for a token without payload
is_current_token(p, type) == p.current_token.type = type

\* Parser::is_peek_token, for a token without payload
is_peek_token(p, type) == p.peek_token.type = type

\* an expect_peek that advances also when the peek token is another one
expect_peek_Advancing(p, type) ==
    IF is_peek_token(p, type)
    THEN POk(p_next_token(p), <<>>)
    ELSE Fail(p_next_token(p), "expect_peek",
              UnexpectedToken(Tok(type), p.peek_token))

\* Parser::expect_peek
expect_peek(p, type) ==
    IF is_peek_token(p, type)
    THEN POk(p_next_token(p), <<>>)
    ELSE Fail(p, "expect_peek", UnexpectedToken(Tok(type), p.peek_token))

current_precedence(p) == TokenPrecedence(p.current_token)

peek_precedence(p) == TokenPrecedence(p.peek_token)

\* the operator match of parse_infix_expression
InfixOfToken ==
    [t \in {"Plus", "Minus", "Asterisk", "Slash", "Eq", "NotEq", "LT", "GT"} |-> t]

\* b, what parse_block_statement returns when called with the Parser p, with
\* the event of the block's end in the trace: open and close are the places
\* in fetched of the current token at the call and at the return.
BlockDone(p, b) ==
    IF ~b.ok THEN b
    ELSE [b EXCEPT !.p = Trace(@, [ev |-> "block",
                                   open |-> Len(p.fetched) - 1,
                                   close |-> Len(b.p.fetched) - 1,
                                   current |-> b.p.current_token,
                                   statements |-> b.val.statements])]

RECURSIVE parse_statement(_), parse_let_statement(_), parse_return_statement(_),
          parse_expression_statement(_), parse_expression(_, _), InfixLoop(_, _, _),
          PrefixDispatch(_, _),
          parse_prefix_expression(_), parse_infix_expression(_, _),
          parse_grouped_expression(_), parse_if_expression(_), ParseAlternative(_),
          parse_function_expression(_), parse_function_parameters(_),
          ParametersLoop(_, _), parse_call_expression(_, _),
          parse_call_arguments(_), ArgumentsLoop(_, _),
          parse_block_statement(_), BlockLoop(_, _), ProgramLoop(_, _),
          BlockLoopToRBrace(_, _)

\* Parser::parse_statement
parse_statement(p) ==
    CASE p.current_token.type = "Let" -> parse_let_statement(p)
      [] p.current_token.type = "Return" -> parse_return_statement(p)
      [] OTHER -> parse_expression_statement(p)

\* Parser::parse_let_statement
parse_let_statement(p0) ==
    The({ IF p1.current_token.type # "Identifier"
          THEN Fail(p1, "let",
                    UnexpectedToken([type |-> "Identifier", lit |-> <<>>],
                                    p1.current_token))
          ELSE
          The({ IF ~e.ok THEN e ELSE
                The({ IF ~v.ok THEN v
                      ELSE POk(IF ~is_current_token(v.p, "SemiColon")
                               THEN p_next_token(v.p) ELSE v.p,
                               LetStmt(IdentifierExpr(p1.current_token.lit), v.val))
                      : v \in {parse_expression(p_next_token(e.p), Precedence.Lowest)} })
                : e \in {expect_peek(p1, "Assign")} })
          : p1 \in {p_next_token(p0)} })

\* Parser::parse_return_statement
parse_return_statement(p0) ==
    The({ IF ~v.ok THEN v ELSE
          The({ IF ~e.ok THEN e ELSE POk(e.p, ReturnStmt(v.val))
                : e \in {expect_peek(v.p, "SemiColon")} })
          : v \in {parse_expression(p_next_token(p0), Precedence.Lowest)} })

\* Parser::parse_expression_statement
parse_expression_statement(p0) ==
    The({ IF ~v.ok THEN v
          ELSE POk(IF is_peek_token(v.p, "SemiColon") THEN p_next_token(v.p) ELSE v.p,
                   ExpressionStmt(v.val))
          : v \in {parse_expression(p0, Precedence.Lowest)} })

\* the prefix match of parse_expression on the current token t
PrefixDispatch(p, t) ==
    CASE t.type = "Identifier" -> POk(p, IdentifierExpr(t.lit))
      [] t.type = "StringLiteral" -> POk(p, StringExpr(t.lit))
      [] t.type = "IntLiteral" -> POk(p, IntegerExpr(t.int))
      [] t.type = "True" -> POk(p, BooleanExpr(TRUE))
      [] t.type = "False" -> POk(p, BooleanExpr(FALSE))
      [] t.type = "Bang" -> parse_prefix_expression(p)
      [] t.type = "Minus" -> parse_prefix_expression(p)
      [] t.type = "LParen" -> parse_grouped_expression(p)
      [] t.type = "If" -> parse_if_expression(p)
      [] t.type = "Function" -> parse_function_expression(p)
      [] OTHER -> Fail(p, "expression", InvalidToken(t))

\* Parser::parse_expression: the prefix match, then the infix loop
parse_expression(p, precedence) ==
    The({ IF ~left.ok THEN left ELSE InfixLoop(left.p, left.val, precedence)
          : left \in {PrefixDispatch(p, p.current_token)} })

\* the while loop of parse_expression
InfixLoop(p, left_exp, precedence) ==
    IF ~is_peek_token(p, "SemiColon") /\ precedence < peek_precedence(p)
    THEN IF p.peek_token.type \in DOMAIN InfixOfToken \cup {"LParen"}
         THEN The({ IF ~r.ok THEN r
                    ELSE InfixLoop(Iterated("infix", p, r.p), r.val, precedence)
                    : r \in {IF p.peek_token.type = "LParen"
                             THEN parse_call_expression(
                                     p_next_token(Iteration("infix", p.peek_token, p)),
                                     left_exp)
                             ELSE parse_infix_expression(
                                     p_next_token(Iteration("infix", p.peek_token, p)),
                                     left_exp)} })
         ELSE POk(p, left_exp)
    ELSE POk(p, left_exp)

\* Parser::parse_prefix_expression
parse_prefix_expression(p) ==
    IF p.current_token.type \notin {"Bang", "Minus"}
    THEN Fail(p, "prefix", InvalidToken(p.current_token))
    ELSE The({ IF ~r.ok THEN r ELSE POk(r.p, PrefixExpr(p.current_token.type, r.val))
               : r \in {parse_expression(p_next_token(p), Precedence.Prefix)} })

\* Parser::parse_infix_expression
parse_infix_expression(p, left_expression) ==
    IF p.current_token.type \notin DOMAIN InfixOfToken
    THEN Fail(p, "infix", InvalidToken(p.current_token))
    ELSE The({ IF ~r.ok THEN r
               ELSE POk(r.p, InfixExpr(InfixOfToken[p.current_token.type],
                                       left_expression, r.val))
               : r \in {parse_expression(p_next_token(p), current_precedence(p))} })

\* Parser::parse_grouped_expression
parse_grouped_expression(p) ==
    The({ IF ~r.ok THEN r ELSE
          The({ IF ~e.ok THEN e ELSE POk(e.p, r.val)
                : e \in {expect_peek(r.p, "RParen")} })
          : r \in {parse_expression(p_next_token(p), Precedence.Lowest)} })

\* the else part of parse_if_expression, after the consequence b
ParseAlternative(b) ==
    IF ~is_peek_token(b.p, "Else") THEN POk(b.p, <<>>)
    ELSE The({ IF ~e3.ok THEN e3 ELSE
               The({ IF ~a.ok THEN a ELSE POk(a.p, <<a.val>>)
                     : a \in {parse_block_statement(e3.p)} })
               : e3 \in {expect_peek(p_next_token(b.p), "LBrace")} })

\* Parser::parse_if_expression
parse_if_expression(p) ==
    The({ IF ~e1.ok THEN e1 ELSE
          The({ IF ~c.ok THEN c ELSE
                IF ~is_current_token(c.p, "RParen")
                THEN Fail(c.p, "if", UnexpectedToken(Tok("RParen"), c.p.current_token))
                ELSE
                The({ IF ~e2.ok THEN e2 ELSE
                      The({ IF ~b.ok THEN b ELSE
                            The({ IF ~a.ok THEN a
                                  ELSE POk(a.p, IfExpr(c.val, b.val, a.val))
                                  : a \in {ParseAlternative(b)} })
                            : b \in {parse_block_statement(e2.p)} })
                      : e2 \in {expect_peek(c.p, "LBrace")} })
                : c \in {parse_expression(e1.p, Precedence.Lowest)} })
          : e1 \in {expect_peek(p, "LParen")} })

\* Parser::parse_function_expression
parse_function_expression(p) ==
    The({ IF ~e1.ok THEN e1 ELSE
          The({ IF ~ps.ok THEN ps ELSE
                The({ IF ~e2.ok THEN e2 ELSE
                      The({ IF ~b.ok THEN b
                            ELSE POk(b.p, FunctionExpr(ps.val, b.val))
                            : b \in {parse_block_statement(e2.p)} })
                      : e2 \in {expect_peek(ps.p, "LBrace")} })
                : ps \in {parse_function_parameters(e1.p)} })
          : e1 \in {expect_peek(p, "LParen")} })

\* Parser::parse_function_parameters
parse_function_parameters(p) ==
    IF is_peek_token(p, "RParen")
    THEN POk(p_next_token(p), <<>>)
    ELSE The({ IF p1.current_token.type # "Identifier"
               THEN Fail(p1, "parameters", InvalidToken(p1.current_token))
               ELSE ParametersLoop(p1, <<IdentifierExpr(p1.current_token.lit)>>)
               : p1 \in {p_next_token(p)} })

\* the while loop of parse_function_parameters, then its expect_peek
ParametersLoop(p, identifiers) ==
    IF is_peek_token(p, "Comma")
    THEN The({ IF p2.current_token.type # "Identifier"
               THEN Fail(p2, "parameters", InvalidToken(p2.current_token))
               ELSE ParametersLoop(Iterated("parameters", p, p2),
                                   Append(identifiers,
                                          IdentifierExpr(p2.current_token.lit)))
               : p2 \in {p_next_token(p_next_token(
                             Iteration("parameters", p.peek_token, p)))} })
    ELSE The({ IF ~e.ok THEN e ELSE POk(e.p, identifiers)
               : e \in {expect_peek(p, "RParen")} })

\* Parser::parse_call_expression
parse_call_expression(p, function) ==
    The({ IF ~a.ok THEN a ELSE POk(a.p, CallExpr(function, a.val))
          : a \in {parse_call_arguments(p)} })

\* Parser::parse_call_arguments
parse_call_arguments(p) ==
    IF is_peek_token(p, "RParen")
    THEN POk(p_next_token(p), <<>>)
    ELSE The({ IF ~r.ok THEN r ELSE ArgumentsLoop(r.p, <<r.val>>)
               : r \in {parse_expression(p_next_token(p), Precedence.Lowest)} })

\* the while loop of parse_call_arguments, then its expect_peek
ArgumentsLoop(p, arguments) ==
    IF is_peek_token(p, "Comma")
    THEN The({ IF ~r.ok THEN r
               ELSE ArgumentsLoop(Iterated("arguments", p, r.p),
                                  Append(arguments, r.val))
               : r \in {parse_expression(
                            p_next_token(p_next_token(
                                Iteration("arguments", p.peek_token, p))),
                            Precedence.Lowest)} })
    ELSE The({ IF ~e.ok THEN e ELSE POk(e.p, arguments)
               : e \in {expect_peek(p, "RParen")} })

\* Parser::parse_block_statement
parse_block_statement(p) == BlockDone(p, BlockLoop(p_next_token(p), <<>>))

\* a loop that goes on until the current token is RBrace, also at EOF
BlockLoopToRBrace(p, statements) ==
    IF ~is_current_token(p, "RBrace")
    THEN The({ IF ~r.ok THEN r
               ELSE BlockLoopToRBrace(Iterated("block", p, p_next_token(r.p)),
                                      Append(statements, r.val))
               : r \in {parse_statement(Iteration("block", p.current_token, p))} })
    ELSE POk(p, BlockStmt(statements))

\* the while loop of parse_block_statement
BlockLoop(p, statements) ==
    IF ~is_current_token(p, "RBrace") /\ ~is_current_token(p, "EOF")
    THEN The({ IF ~r.ok THEN r
               ELSE BlockLoop(Iterated("block", p, p_next_token(r.p)),
                              Append(statements, r.val))
               : r \in {parse_statement(Iteration("block", p.current_token, p))} })
    ELSE POk(p, BlockStmt(statements))

\* the while loop of parse_program
ProgramLoop(p, statements) ==
    IF ~is_current_token(p, "EOF")
    THEN The({ IF ~r.ok THEN r
               ELSE ProgramLoop(Iterated("program", p, p_next_token(r.p)),
                                Append(statements, r.val))
               : r \in {parse_statement(Iteration("program", p.current_token, p))} })
    ELSE POk(p, statements)

\* Parser::parse_program
parse_program(p) == ProgramLoop(p, <<>>)

\* Lexer::new, Parser::new and parse_program on one input, as main and the
\* tests do: the Program's statements, the MonkeyError, or a panic.
ParseResult(r) ==
    IF r.p.panicked THEN [ok |-> FALSE, panic |-> TRUE]
    ELSE IF r.ok THEN [ok |-> TRUE, panic |-> FALSE, program |-> r.val]
    ELSE [ok |-> FALSE, panic |-> FALSE, err |-> r.err]

ParseSource(input) == ParseResult(parse_program(ParserNew(LexerNew(input))))

-----------------------------------------------------------------------------
(* Printing the AST: the Display and the derived Debug of src/lib/parser/ast.rs *)

RECURSIVE Join(_, _)
\* .collect::<Vec<_>>().join(sep)
Join(texts, sep) ==
    IF texts = <<>> THEN <<>>
    ELSE IF Len(texts) = 1 THEN texts[1]
    ELSE texts[1] \o sep \o Join(Tail(texts), sep)

RECURSIVE Concat(_)
Concat(texts) == IF texts = <<>> THEN <<>> ELSE Head(texts) \o Concat(Tail(texts))

\* impl Display for Prefix
DisplayPrefix(op) == IF op = "Bang" THEN <<"!">> ELSE <<"-">>

\* impl Display for Infix
DisplayInfix(op) ==
    CASE op = "Plus" -> <<"+">> [] op = "Minus" -> <<"-">>
      [] op = "Asterisk" -> <<"*">> [] op = "Slash" -> <<"/">>
      [] op = "Eq" -> <<"=", "=">> [] op = "NotEq" -> <<"!", "=">>
      [] op = "LT" -> <<"<">> [] op = "GT" -> <<">">>

\* bool's Display and Debug
DisplayBool(b) == IF b THEN Spell.true ELSE Spell.false

RECURSIVE EscapeDebug(_)
\* char::escape_debug over a str, for the bytes the model's inputs hold
EscapeDebug(str) ==
    IF str = <<>> THEN <<>>
    ELSE LET c == Head(str)
             e == CASE c = "\"" -> <<"\\", "\"">>
                    [] c = "\\" -> <<"\\", "\\">>
                    [] c = "\n" -> <<"\\", "n">>
                    [] c = "\t" -> <<"\\", "t">>
                    [] c = "\r" -> <<"\\", "r">>
                    [] c = NUL -> <<"\\", "0">>
                    [] OTHER -> <<c>>
         IN  e \o EscapeDebug(Tail(str))

\* String's Debug
DebugString(str) == <<"\"">> \o EscapeDebug(str) \o <<"\"">>

RECURSIVE DebugExpression(_), DebugStatement(_), MapDebugExpression(_),
          MapDebugStatement(_)

\* #[derive(Debug)] of Expression ({:?}, not pretty)
DebugExpression(e) ==
    CASE e.type = "Identifier" ->
            Spell.Identifier \o <<"(">> \o DebugString(e.value) \o <<")">>
      [] e.type = "String" ->
            Spell.String \o <<"(">> \o DebugString(e.value) \o <<")">>
      [] e.type = "Integer" -> Spell.Integer \o <<"(">> \o e.value \o <<")">>
      [] e.type = "Boolean" ->
            Spell.Boolean \o <<"(">> \o DisplayBool(e.value) \o <<")">>
      [] e.type = "Prefix" ->
            Spell.Prefix \o <<" ", "{", " ">> \o Spell.operator \o <<":", " ">>
            \o Spell[e.operator] \o <<",", " ">> \o Spell.right \o <<":", " ">>
            \o DebugExpression(e.right) \o <<" ", "}">>
      [] e.type = "Infix" ->
            Spell.Infix \o <<" ", "{", " ">> \o Spell.operator \o <<":", " ">>
            \o Spell[e.operator] \o <<",", " ">> \o Spell.left \o <<":", " ">>
            \o DebugExpression(e.left) \o <<",", " ">> \o Spell.right \o <<":", " ">>
            \o DebugExpression(e.right) \o <<" ", "}">>
      [] e.type = "If" ->
            Spell.If \o <<" ", "{", " ">> \o Spell.condition \o <<":", " ">>
            \o DebugExpression(e.condition) \o <<",", " ">>
            \o Spell.consequence \o <<":", " ">> \o DebugStatement(e.consequence)
            \o <<",", " ">> \o Spell.alternative \o <<":", " ">>
            \o (IF e.alternative = <<>> THEN Spell.None
                ELSE Spell.Some \o <<"(">> \o DebugStatement(e.alternative[1])
                     \o <<")">>)
            \o <<" ", "}">>
      [] e.type = "Function" ->
            Spell.Function \o <<" ", "{", " ">> \o Spell.parameters \o <<":", " ">>
            \o <<"[">> \o Join(MapDebugExpression(e.parameters), <<",", " ">>)
            \o <<"]">> \o <<",", " ">> \o Spell.body \o <<":", " ">>
            \o DebugStatement(e.body) \o <<" ", "}">>
      [] e.type = "Call" ->
            Spell.Call \o <<" ", "{", " ">> \o Spell.function \o <<":", " ">>
            \o DebugExpression(e.function) \o <<",", " ">>
            \o Spell.arguments \o <<":", " ">>
            \o <<"[">> \o Join(MapDebugExpression(e.arguments), <<",", " ">>)
            \o <<"]">> \o <<" ", "}">>

\* #[derive(Debug)] of Statement
DebugStatement(st) ==
    CASE st.type = "Let" ->
            Spell.Let \o <<" ", "{", " ">> \o Spell.identifier \o <<":", " ">>
            \o DebugExpression(st.identifier) \o <<",", " ">>
            \o Spell.value \o <<":", " ">> \o DebugExpression(st.value)
            \o <<" ", "}">>
      [] st.type = "Return" ->
            Spell.Return \o <<"(">> \o DebugExpression(st.value) \o <<")">>
      [] st.type = "Expression" ->
            Spell.Expression \o <<"(">> \o DebugExpression(st.value) \o <<")">>
      [] st.type = "Block" ->
            Spell.Block \o <<"(", "[">>
            \o Join(MapDebugStatement(st.statements), <<",", " ">>) \o <<"]", ")">>

MapDebugExpression(es) ==
    IF es = <<>> THEN <<>>
    ELSE <<DebugExpression(Head(es))>> \o MapDebugExpression(Tail(es))

MapDebugStatement(sts) ==
    IF sts = <<>> THEN <<>>
    ELSE <<DebugStatement(Head(sts))>> \o MapDebugStatement(Tail(sts))

RECURSIVE DisplayStatement(_), MapDisplayStatement(_)

\* impl fmt::Display for Statement: the expressions are written with {:?}
DisplayStatement(st) ==
    CASE st.type = "Let" ->
            Spell.let \o <<" ">> \o DebugExpression(st.identifier)
            \o <<" ", "=", " ">> \o DebugExpression(st.value) \o <<";">>
      [] st.type = "Return" ->
            Spell.return \o <<" ">> \o DebugExpression(st.value) \o <<";">>
      [] st.type = "Expression" -> DebugExpression(st.value) \o <<";">>
      [] st.type = "Block" -> Concat(MapDisplayStatement(st.statements))

MapDisplayStatement(sts) ==
    IF sts = <<>> THEN <<>>
    ELSE <<DisplayStatement(Head(sts))>> \o MapDisplayStatement(Tail(sts))

RECURSIVE DisplayExpression(_), MapDisplayExpression(_), ParameterNames(_)

\* the map of the Function arm: the identifier of each parameter
ParameterNames(ps) ==
    IF ps = <<>> THEN <<>> ELSE <<Head(ps).value>> \o ParameterNames(Tail(ps))

\* impl fmt::Display for Expression
DisplayExpression(e) ==
    CASE e.type = "Identifier" -> e.value
      [] e.type = "String" -> e.value
      [] e.type = "Integer" -> e.value
      [] e.type = "Prefix" ->
            <<"(">> \o DisplayPrefix(e.operator) \o DisplayExpression(e.right)
            \o <<")">>
      [] e.type = "Infix" ->
            <<"(">> \o DisplayExpression(e.left) \o DisplayInfix(e.operator)
            \o DisplayExpression(e.right) \o <<")">>
      [] e.type = "Boolean" -> DisplayBool(e.value)
      [] e.type = "If" ->
            IF e.alternative # <<>>
            THEN Spell.if \o <<"(">> \o DisplayExpression(e.condition)
                 \o <<")", "{">> \o DisplayStatement(e.consequence) \o <<"}">>
                 \o Spell.else \o <<"{">> \o DisplayStatement(e.alternative[1])
                 \o <<"}">>
            ELSE Spell.if \o <<"(">> \o DisplayExpression(e.condition)
                 \o <<")", "{">> \o DisplayStatement(e.consequence) \o <<"}">>
      [] e.type = "Function" ->
            Spell.fn \o <<"(">> \o Join(ParameterNames(e.parameters), <<",">>)
            \o <<")", "{">> \o DisplayStatement(e.body) \o <<"}">>
      [] e.type = "Call" ->
            DisplayExpression(e.function) \o <<"(">>
            \o Join(MapDisplayExpression(e.arguments), <<",">>) \o <<")">>

MapDisplayExpression(es) ==
    IF es = <<>> THEN <<>>
    ELSE <<DisplayExpression(Head(es))>> \o MapDisplayExpression(Tail(es))

-----------------------------------------------------------------------------
(* Values and environments: src/lib/eval/object.rs, environment.rs         *)

\* enum Object
IntegerObj(n) == [type |-> "Integer", value |-> n]
StringObj(str) == [type |-> "String", value |-> str]
BoolObj(b) == [type |-> "Bool", value |-> b]
NullObj == [type |-> "Null"]
ReturnObj(obj) == [type |-> "Return", value |-> obj]
FunctionObj(parameters, body, env) ==
    [type |-> "Function", parameters |-> parameters, body |-> body, env |-> env]

\* a truthiness for which the integer 0 is false as well
is_truthy_ZeroIsFalse(obj) ==
    CASE obj.type = "Null" -> FALSE
      [] obj.type = "Bool" -> obj.value
      [] obj.type = "Integer" -> obj.value # 0
      [] OTHER -> TRUE

\* Object::is_truthy
is_truthy(obj) ==
    CASE obj.type = "Null" -> FALSE
      [] obj.type = "Bool" -> obj.value
      [] OTHER -> TRUE

\* An Environment is [store, outer]: store maps names to Objects, outer is an
\* Option<Rc<RefCell<Environment>>>: <<>> for None, <<a>> for the cell at
\* address a of the heap.

\* Environment::new
EnvironmentNew == [store |-> <<>>, outer |-> <<>>]

\* Environment::new_enclosed
new_enclosed(outer) == [store |-> <<>>, outer |-> <<outer>>]

RECURSIVE EnvironmentGetOuterFirst(_, _, _, _)
\* a lookup that asks the outer scopes first and env's own store last
EnvironmentGetOuterFirst(h, env, key, borrowed) ==
    IF env.outer = <<>>
    THEN [panic |-> FALSE,
          found |-> IF key \in DOMAIN env.store THEN <<env.store[key]>> ELSE <<>>]
    ELSE The({ IF o.found # <<>> \/ key \notin DOMAIN env.store THEN o
               ELSE [panic |-> FALSE, found |-> <<env.store[key]>>]
               : o \in {EnvironmentGetOuterFirst(h, h[env.outer[1]], key, borrowed)} })

RECURSIVE EnvironmentGet(_, _, _, _)
\* Environment::get on env, a cell's content or a function's own Environment:
\* found is the Option<Object>.  borrowed holds the cells whose RefCell is
\* mutably borrowed by the callers; borrow_mut on one of them panics.
EnvironmentGet(h, env, key, borrowed) ==
    IF key \in DOMAIN env.store
    THEN [panic |-> FALSE, found |-> <<env.store[key]>>]
    ELSE IF env.outer # <<>>
    THEN IF env.outer[1] \in borrowed
         THEN [panic |-> TRUE, found |-> <<>>]
         ELSE EnvironmentGet(h, h[env.outer[1]], key, borrowed \cup {env.outer[1]})
    ELSE [panic |-> FALSE, found |-> <<>>]

\* Environment::set: HashMap::insert
EnvironmentSet(env, key, val) ==
    [env EXCEPT !.store = [k \in DOMAIN env.store \cup {key} |->
                              IF k = key THEN val ELSE env.store[k]]]

-----------------------------------------------------------------------------
(* Evaluator: src/lib/eval/mod.rs                                          *)
(*                                                                         *)
(* st is [heap, log].  An Evaluator is the address self of its env cell.   *)
(* Every eval function gives the state after the call and the Result: ok   *)
(* with val, or not ok with err.  A panic is the err Panic, which travels  *)
(* up as the unwinding does: nothing in the evaluator catches an Err.      *)

EOk(st, val) == [st |-> st, ok |-> TRUE, val |-> val]
EErr(st, err) == [st |-> st, ok |-> FALSE, err |-> err]

Emit(st, event) == [st EXCEPT !.log = Append(@, event)]

Panic == [kind |-> "Panic"]

\* a from_env that takes the cell of an earlier call whose scope is enclosed
\* in the same scope, when there is one
from_env_Reusing(st, env) ==
    IF \E c \in 2..Len(st.heap) : st.heap[c].outer = env.outer
    THEN [st |-> st,
          self |-> CHOOSE c \in 2..Len(st.heap) : st.heap[c].outer = env.outer]
    ELSE [st |-> [st EXCEPT !.heap = Append(@, env)], self |-> Len(st.heap) + 1]

\* a from_env whose new cell is its own outer scope
from_env_SelfEnclosed(st, env) ==
    [st |-> [st EXCEPT !.heap = Append(@, [store |-> env.store,
                                           outer |-> <<Len(st.heap) + 1>>])],
     self |-> Len(st.heap) + 1]

\* Evaluator::from_env: a new cell that holds env
from_env(st, env) ==
    [st |-> [st EXCEPT !.heap = Append(@, env)], self |-> Len(st.heap) + 1]

\* Evaluator::get
EvaluatorGet(st, self, key) == EnvironmentGet(st.heap, st.heap[self], key, {self})

\* a set that assigns to the global scope's binding when the global scope
\* binds the name already
EvaluatorSetGlobal(st, self, key, value) ==
    IF key \in DOMAIN st.heap[1].store
    THEN [st EXCEPT !.heap[1] = EnvironmentSet(@, key, value)]
    ELSE [st EXCEPT !.heap[self] = EnvironmentSet(@, key, value)]

\* Evaluator::set
EvaluatorSet(st, self, key, value) ==
    [st EXCEPT !.heap[self] = EnvironmentSet(@, key, value)]

RECURSIVE DigitsToInt(_)
\* the i64 of a literal, from its decimal digits
DigitsToInt(ds) ==
    IF ds = <<>> THEN 0
    ELSE 10 * DigitsToInt(SubSeq(ds, 1, Len(ds) - 1)) + DigitValue[ds[Len(ds)]]

Abs(x) == IF x < 0 THEN -x ELSE x

\* i64 division: truncates toward zero
TruncDiv(a, b) ==
    IF (a < 0) = (b < 0) THEN Abs(a) \div Abs(b) ELSE -(Abs(a) \div Abs(b))

\* a TypeMismatch that names the operand types the other way round
TypeMismatchExchanged(operator, left, right) ==
    [kind |-> "TypeMismatch", operator |-> operator, left |-> right, right |-> left]

\* MonkeyError::TypeMismatch { operator, left, right }
TypeMismatch(operator, left, right) ==
    [kind |-> "TypeMismatch", operator |-> operator, left |-> left, right |-> right]

\* MonkeyError::UnknownOperator { operator, left, right }
UnknownOperator(operator, left, right) ==
    [kind |-> "UnknownOperator", left |-> left, operator |-> operator, right |-> right]

\* a last arm that compares the operands' types for == and !=
OtherOperandsCompared(st, operator, left, right) ==
    CASE operator = "Eq" -> EOk(st, BoolObj(left.type = right.type))
      [] operator = "NotEq" -> EOk(st, BoolObj(left.type # right.type))
      [] OTHER -> EOk(st, NullObj)

\* the last arm of eval_infix_expression: _ => Ok(Object::Null)
OtherOperands(st, operator, left, right) == EOk(st, NullObj)

\* Evaluator::eval_infix_expression
eval_infix_expression(st, operator, left, right) ==
    CASE left.type = "Integer" /\ right.type = "Integer" ->
            (CASE operator = "Eq" -> EOk(st, BoolObj(left.value = right.value))
               [] operator = "NotEq" -> EOk(st, BoolObj(left.value # right.value))
               [] operator = "LT" -> EOk(st, BoolObj(left.value < right.value))
               [] operator = "GT" -> EOk(st, BoolObj(left.value > right.value))
               [] operator = "Plus" -> EOk(st, IntegerObj(left.value + right.value))
               [] operator = "Minus" -> EOk(st, IntegerObj(left.value - right.value))
               [] operator = "Slash" ->
                     IF right.value = 0 THEN EErr(st, Panic)
                     ELSE EOk(st, IntegerObj(TruncDiv(left.value, right.value)))
               [] operator = "Asterisk" ->
                     EOk(st, IntegerObj(left.value * right.value)))
      [] left.type = "Bool" /\ right.type = "Bool" ->
            (CASE operator = "Eq" -> EOk(st, BoolObj(left.value = right.value))
               [] operator = "NotEq" -> EOk(st, BoolObj(left.value # right.value))
               [] OTHER -> EErr(st, UnknownOperator(operator, "Bool", "Bool")))
      [] left.type = "Integer" /\ right.type = "Bool" ->
            EErr(st, TypeMismatch(operator, "Integer", "Bool"))
      [] left.type = "Bool" /\ right.type = "Integer" ->
            EErr(st, TypeMismatch(operator, "Bool", "Integer"))
      [] OTHER -> OtherOperands(st, operator, left, right)

\* Evaluator::eval_prefix_expression
eval_prefix_expression(st, operator, right) ==
    IF operator = "Bang"
    THEN CASE right.type = "Bool" -> EOk(st, BoolObj(~right.value))
           [] right.type = "Null" -> EOk(st, BoolObj(TRUE))
           [] OTHER -> EOk(st, BoolObj(FALSE))
    ELSE CASE right.type = "Integer" -> EOk(st, IntegerObj(-right.value))
           [] OTHER -> EOk(st, NullObj)

\* a function value that holds a copy of the defining scope as it is when the
\* function is made
FunctionValueSnapshot(st, self, parameters, body) ==
    FunctionObj(parameters, body,
                [store |-> st.heap[self].store, outer |-> st.heap[self].outer])

\* the Function arm of eval_expression: the value's own Environment is
\* enclosed in the evaluator's cell, Rc::clone(&self.env)
FunctionValue(st, self, parameters, body) ==
    FunctionObj(parameters, body, new_enclosed(self))

\* the error of apply_function for a wrong number of arguments
ArgumentCountError(parameters, args) ==
    [kind |-> "IncorrectNumberOfArguments",
     expected |-> Len(args), actual |-> Len(parameters)]

\* an environment enclosed in the caller's scope
CallEnvironmentOfCaller(function, caller) == new_enclosed(caller)

\* the environment apply_function hands to Evaluator::from_env
CallEnvironment(function, caller) == function.env

\* blocks of an if-expression that get an Evaluator of their own, with a
\* scope enclosed in self's
IfBlockEvaluatorEnclosed(st, self) == from_env(st, new_enclosed(self))

\* the Evaluator that evaluates the blocks of an if-expression: self
IfBlockEvaluator(st, self) == [st |-> st, self |-> self]

\* What the log keeps of a Result.
Res(r) == IF r.ok THEN r.val ELSE r.err

\* The log's entry for one evaluated operand of an infix expression.
Operand(side, r) == [side |-> side, ok |-> r.ok, res |-> Res(r)]

\* r, with the event of the infix expression's end in the log
InfixDone(self, expr, operands, r) ==
    [r EXCEPT !.st = Emit(@, [ev |-> "infix", self |-> self, expr |-> expr,
                              operands |-> operands, ok |-> r.ok, res |-> Res(r)])]

\* c, the Result of an if-expression's condition, with the event of the
\* condition's value in the log
ConditionDone(self, expr, c) ==
    IF ~c.ok THEN c
    ELSE [c EXCEPT !.st = Emit(@, [ev |-> "if", self |-> self, expr |-> expr,
                                   cond |-> c.val])]

\* r, with the event of one evaluated argument in the log: its place in the
\* list and the arguments that follow it
ArgumentDone(self, objs, exprs, r) ==
    [r EXCEPT !.st = Emit(@, [ev |-> "arg", self |-> self, index |-> Len(objs) + 1,
                              rest |-> Tail(exprs), ok |-> r.ok, res |-> Res(r)])]

\* r, with the event of the end of a call's part in the log: part is "args"
\* for the argument list and "callee" for the function expression
CallPartDone(part, self, expr, r) ==
    [r EXCEPT !.st = Emit(@, [ev |-> part, self |-> self, expr |-> expr,
                              ok |-> r.ok, res |-> Res(r)])]

\* r, with the event of the call's end in the log; evaluator is the cell of
\* the call's Evaluator, 0 when none was made
ApplyDone(self, evaluator, r) ==
    [r EXCEPT !.st = Emit(@, [ev |-> "applied", self |-> self,
                              evaluator |-> evaluator, ok |-> r.ok,
                              res |-> Res(r)])]

\* a let that binds the name to Null when its value expression gives an error
LetDoneBindingNull(self, name, r) ==
    IF ~r.ok THEN EErr(EvaluatorSet(r.st, self, name, NullObj), r.err)
    ELSE EOk(Emit(EvaluatorSet(r.st, self, name, r.val),
                  [ev |-> "let", self |-> self, name |-> name, val |-> r.val]),
             NullObj)

\* the let arm of eval_statement after the value expression gave r: an error
\* goes up (the ? operator), a value is bound to the name in self's scope
LetDone(self, name, r) ==
    IF ~r.ok THEN r
    ELSE EOk(Emit(EvaluatorSet(r.st, self, name, r.val),
                  [ev |-> "let", self |-> self, name |-> name, val |-> r.val]),
             NullObj)

RECURSIVE eval_statement(_, _, _), eval_expression(_, _, _),
          eval_expressions(_, _, _, _), apply_function(_, _, _, _),
          eval_expressions_RightToLeft(_, _, _, _),
          BindParameters(_, _, _, _), eval_block_statement(_, _, _, _)

\* Evaluator::eval_statement
eval_statement(st0, self, stmt) ==
    The({ CASE stmt.type = "Expression" -> eval_expression(st, self, stmt.value)
            [] stmt.type = "Block" ->
                  eval_block_statement(st, self, stmt.statements, NullObj)
            [] stmt.type = "Return" ->
                  The({ IF ~r.ok THEN r
                        ELSE EOk(Emit(r.st, [ev |-> "return", self |-> self,
                                             val |-> r.val]),
                                 ReturnObj(r.val))
                        : r \in {eval_expression(st, self, stmt.value)} })
            [] stmt.type = "Let" ->
                  IF stmt.identifier.type # "Identifier" THEN EErr(st, Panic)
                  ELSE
                  LetDone(self, stmt.identifier.value,
                          eval_expression(st, self, stmt.value))
          : st \in {Emit(st0, [ev |-> "stmt", self |-> self, stmt |-> stmt])} })

\* Evaluator::eval_block_statement: the statements left, and the result so far
eval_block_statement(st, self, stmts, last) ==
    IF stmts = <<>> THEN EOk(st, last)
    ELSE The({ IF ~r.ok THEN r
               ELSE IF r.val.type = "Return" THEN r
               ELSE eval_block_statement(r.st, self, Tail(stmts), r.val)
               : r \in {eval_statement(st, self, Head(stmts))} })

\* Evaluator::eval_expression
eval_expression(st0, self, expr) ==
    The({ CASE expr.type = "Integer" -> EOk(st, IntegerObj(DigitsToInt(expr.value)))
            [] expr.type = "String" -> EOk(st, StringObj(expr.value))
            [] expr.type = "Boolean" -> EOk(st, BoolObj(expr.value))
            [] expr.type = "Prefix" ->
                  The({ IF ~r.ok THEN r
                        ELSE eval_prefix_expression(
                                Emit(r.st, [ev |-> "prefix", self |-> self,
                                            right |-> r.val]),
                                expr.operator, r.val)
                        : r \in {eval_expression(st, self, expr.right)} })
            [] expr.type = "Infix" ->
                  The({ IF ~right.ok
                        THEN InfixDone(self, expr, <<Operand("right", right)>>, right)
                        ELSE
                        The({ InfixDone(self, expr,
                                        <<Operand("right", right), Operand("left", left)>>,
                                        IF ~left.ok THEN left
                                        ELSE eval_infix_expression(left.st, expr.operator,
                                                                   left.val, right.val))
                              : left \in {eval_expression(right.st, self, expr.left)} })
                        : right \in {eval_expression(st, self, expr.right)} })
            [] expr.type = "If" ->
                  The({ IF ~c.ok THEN c
                        ELSE IF is_truthy(c.val)
                        THEN The({ eval_statement(b.st, b.self, expr.consequence)
                                   : b \in {IfBlockEvaluator(c.st, self)} })
                        ELSE IF expr.alternative # <<>>
                        THEN The({ eval_statement(b.st, b.self, expr.alternative[1])
                                   : b \in {IfBlockEvaluator(c.st, self)} })
                        ELSE EOk(c.st, NullObj)
                        : c \in {ConditionDone(self, expr,
                                    eval_expression(st, self, expr.condition))} })
            [] expr.type = "Identifier" ->
                  The({ IF g.panic
                        THEN EErr(Emit(st, [ev |-> "already_borrowed", self |-> self,
                                            name |-> expr.value]),
                                  Panic)
                        ELSE IF g.found # <<>>
                        THEN EOk(Emit(st, [ev |-> "get", self |-> self,
                                           name |-> expr.value, found |-> g.found]),
                                 g.found[1])
                        ELSE EErr(Emit(st, [ev |-> "get", self |-> self,
                                            name |-> expr.value, found |-> g.found]),
                                  [kind |-> "IdentifierNotFound"])
                        : g \in {EvaluatorGet(st, self, expr.value)} })
            [] expr.type = "Function" ->
                  The({ EOk(Emit(st, [ev |-> "fn", self |-> self, val |-> f]), f)
                        : f \in {FunctionValue(st, self, expr.parameters, expr.body)} })
            [] expr.type = "Call" ->
                  The({ IF ~a.ok THEN a ELSE
                        The({ IF ~f.ok THEN f
                              ELSE apply_function(f.st, self, f.val, a.val)
                              : f \in {CallPartDone("callee", self, expr,
                                          eval_expression(a.st, self, expr.function))} })
                        : a \in {CallPartDone("args", self, expr,
                                    eval_expressions(st, self, expr.arguments, <<>>))} })
          : st \in {Emit(st0, [ev |-> "expr", self |-> self, expr |-> expr])} })

\* a loop over the expressions from the last to the first
eval_expressions_RightToLeft(st, self, exprs, objs) ==
    IF exprs = <<>> THEN EOk(st, objs)
    ELSE The({ IF ~r.ok THEN r
               ELSE eval_expressions_RightToLeft(r.st, self,
                                                 SubSeq(exprs, 1, Len(exprs) - 1),
                                                 <<r.val>> \o objs)
               : r \in {eval_expression(st, self, exprs[Len(exprs)])} })

\* Evaluator::eval_expressions: the expressions left, and the result so far
eval_expressions(st, self, exprs, objs) ==
    IF exprs = <<>> THEN EOk(st, objs)
    ELSE The({ IF ~r.ok THEN r
               ELSE eval_expressions(r.st, self, Tail(exprs), Append(objs, r.val))
               : r \in {ArgumentDone(self, objs, exprs,
                                     eval_expression(st, self, Head(exprs)))} })

\* the zip loop of apply_function over the parameters and arguments left
BindParameters(st, evaluator, parameters, args) ==
    IF parameters = <<>> \/ args = <<>> THEN st
    ELSE BindParameters(
            IF Head(parameters).type = "Identifier"
            THEN Emit(EvaluatorSet(st, evaluator, Head(parameters).value, Head(args)),
                      [ev |-> "bind", self |-> evaluator,
                       name |-> Head(parameters).value, val |-> Head(args)])
            ELSE st,
            evaluator, Tail(parameters), Tail(args))

\* Evaluator::apply_function
apply_function(st0, self, function, args) ==
    The({ IF function.type # "Function"
          THEN ApplyDone(self, 0, EErr(st, [kind |-> "Unknown"]))
          ELSE IF Len(function.parameters) # Len(args)
          THEN ApplyDone(self, 0,
                         EErr(st, ArgumentCountError(function.parameters, args)))
          ELSE
          The({ The({ ApplyDone(self, e.self,
                                IF r.ok /\ r.val.type = "Return"
                                THEN EOk(r.st, r.val.value)
                                ELSE r)
                      : r \in {eval_statement(
                                  BindParameters(
                                      Emit(e.st, [ev |-> "enter", self |-> e.self,
                                                  caller |-> self,
                                                  function |-> function]),
                                      e.self, function.parameters, args),
                                  e.self, function.body)} })
                : e \in {from_env(st, CallEnvironment(function, self))} })
          : st \in {Emit(st0, [ev |-> "apply", self |-> self,
                               function |-> function, args |-> args])} })

-----------------------------------------------------------------------------
(* Inputs of the lexer runs                                                *)

\* The longest input of the lexer runs that is built from LexAlphabet.
MaxLexLen == 3

\* How many calls of next_token a run makes beyond one per input byte.
ExtraCalls == 2

LexAlphabet == {"a", "7", "=", "!", " ", "\"", "#", NUL}

RECURSIVE SeqsUpTo(_, _)
\* every sequence over S of length at most n
SeqsUpTo(S, n) ==
    IF n = 0 THEN {<<>>}
    ELSE LET shorter == SeqsUpTo(S, n - 1)
         IN  shorter \cup {Append(s, x) : s \in {t \in shorter : Len(t) = n - 1}, x \in S}

\* Digit runs around i64::MAX: the largest value that fits, the smallest that
\* does not, and a run that does not fit followed by more input.
LongDigitInputs ==
    { I64MaxDigits,
      SubSeq(I64MaxDigits, 1, 18) \o <<"8">>,
      <<"0", "0">> \o I64MaxDigits,
      I64MaxDigits \o <<"0", " ", "a">> }

LexInputs == SeqsUpTo(LexAlphabet, MaxLexLen) \cup LongDigitInputs

Unset == [ok |-> FALSE, unset |-> TRUE]

InitLex ==
    /\ source \in LexInputs
    /\ sample = [kind |-> "bytes"]
    /\ pc = "lex"
    /\ lexer = LexerNew(source)
    /\ toks = <<>>
    /\ parsed = Unset /\ parser = Unset /\ printed = <<>> /\ reparsed = Unset
    /\ heap = <<>> /\ log = <<>> /\ idx = 0 /\ result = Unset

\* One call of Lexer::next_token that returns.
LexNextToken ==
    /\ pc = "lex"
    /\ Len(toks) < Len(source) + ExtraCalls
    /\ \E r \in {next_token(lexer)} :
           /\ ~r.panic
           /\ lexer' = r.l
           /\ toks' = Append(toks, r.tok)
    /\ UNCHANGED <<sample, source, pc, parVars, evalVars>>

\* One call of Lexer::next_token that panics in read_int: the thread unwinds.
LexPanic ==
    /\ pc = "lex"
    /\ Len(toks) < Len(source) + ExtraCalls
    /\ next_token(lexer).panic
    /\ pc' = "panicked"
    /\ UNCHANGED <<sample, source, lexVars, parVars, evalVars>>

NextLex == LexNextToken \/ LexPanic

SpecLex == InitLex /\ [][NextLex]_vars

Last(s) == s[Len(s)]

\* The digit run that the next call of next_token reads, <<>> when the next
\* token does not start with a digit.
DigitRunAhead(l0) ==
    LET l == skip_whitespace(l0)
    IN  IF is_digit(l.ch)
        THEN Slice(l.input, l.position, ReadWhile(l, TRUE).position)
        ELSE <<>>

\* C7: repeated calls of next_token return EOF after finitely many calls (at
\* the latest the call after one call per input byte), and once a call has
\* returned EOF every later call returns EOF.
C7_EofThenOnlyEof ==
    [][LexNextToken =>
        /\ (Len(toks) >= Len(source) => Last(toks').type = "EOF")
        /\ (toks # <<>> /\ Last(toks).type = "EOF" => Last(toks').type = "EOF")]_vars

\* C8: a maximal run of digits whose value does not fit an i64 is returned as
\* the token Illegal: the call returns normally.
C8_OverflowIsIllegal ==
    [][(pc = "lex" /\ DigitRunAhead(lexer) # <<>> /\ ~ParseI64(DigitRunAhead(lexer)).ok)
         => (pc' = "lex" /\ Last(toks').type = "Illegal")]_vars

\* the bytes of the inputs about = and !: the two bytes, a blank, a letter
OperatorBytes == {"=", "!", " ", "a"}

RECURSIVE LetterRun(_)
\* the letters a at the start of s
LetterRun(s) ==
    IF s # <<>> /\ s[1] = "a" THEN <<"a">> \o LetterRun(Tail(s)) ELSE <<>>

RECURSIVE RefTokens(_)
\* The tokens of an input over OperatorBytes, read from the left: a blank is
\* skipped, = or ! takes a directly following = with it, letters run on.
RefTokens(s) ==
    CASE s = <<>> -> <<>>
      [] s # <<>> /\ s[1] = " " -> RefTokens(Tail(s))
      [] s # <<>> /\ s[1] \in {"=", "!"} ->
            IF Len(s) >= 2 /\ s[2] = "="
            THEN <<Tok(IF s[1] = "=" THEN "Eq" ELSE "NotEq")>>
                 \o RefTokens(SubSeq(s, 3, Len(s)))
            ELSE <<Tok(IF s[1] = "=" THEN "Assign" ELSE "Bang")>>
                 \o RefTokens(Tail(s))
      [] OTHER ->
            <<[type |-> "Identifier", lit |-> LetterRun(s)]>>
            \o RefTokens(SubSeq(s, Len(LetterRun(s)) + 1, Len(s)))

\* C20: = and ! are told from == and != by the byte that follows: with a
\* following = one token Eq or NotEq takes both bytes, otherwise Assign or
\* Bang is returned and the following byte starts the next token.
C20_OneByteLookahead ==
    (\A k \in DOMAIN source : source[k] \in OperatorBytes) =>
        \A i \in DOMAIN toks :
            toks[i] = IF i <= Len(RefTokens(source)) THEN RefTokens(source)[i]
                      ELSE Tok("EOF")

\* === has given Eq, then Assign, then EOF
C20_Witness ==
    /\ source = <<"=", "=", "=">>
    /\ toks = <<Tok("Eq"), Tok("Assign"), Tok("EOF")>>

-----------------------------------------------------------------------------
(* Inputs of the parser runs                                               *)

\* The most binary operators in a chain of plain operands.
MaxChainOps == 3

\* The most binary operators in a chain whose operands carry a prefix
\* operator or a call.
MaxShapedOps == 2

BinaryOps == {"Plus", "Minus", "Asterisk", "Slash", "Eq", "NotEq", "LT", "GT"}

\* one operator of each precedence level
LevelOps == {"Eq", "LT", "Plus", "Asterisk"}

OperandNames == <<"a", "b", "c", "d", "e", "f", "g">>

OperandShapes == {"plain", "minus", "bang", "call", "minus_call"}

\* A chain: operand 1, ops[1], operand 2, ..., each operand in its shape.
Chains ==
    {[kind |-> "chain", ops |-> o, shapes |-> [i \in 1..Len(o) + 1 |-> "plain"]] :
        o \in SeqsUpTo(BinaryOps, MaxChainOps) \ {<<>>}}
    \cup
    UNION {{[kind |-> "chain", ops |-> o, shapes |-> sh] : sh \in [1..Len(o) + 1 -> OperandShapes]} :
            o \in SeqsUpTo(LevelOps, MaxShapedOps) \ {<<>>}}

OperandWords(i, shape) ==
    CASE shape = "plain" -> <<OperandNames[i]>>
      [] shape = "minus" -> <<"-", OperandNames[i]>>
      [] shape = "bang" -> <<"!", OperandNames[i]>>
      [] shape = "call" -> <<OperandNames[i], "(", "z", ")">>
      [] shape = "minus_call" -> <<"-", OperandNames[i], "(", "z", ")">>

OpWord(op) ==
    CASE op = "Plus" -> "+" [] op = "Minus" -> "-" [] op = "Asterisk" -> "*"
      [] op = "Slash" -> "/" [] op = "Eq" -> "==" [] op = "NotEq" -> "!="
      [] op = "LT" -> "<" [] op = "GT" -> ">"

RECURSIVE ChainWordsFrom(_, _)
ChainWordsFrom(chain, i) ==
    OperandWords(i, chain.shapes[i])
    \o (IF i > Len(chain.ops) THEN <<>>
        ELSE <<OpWord(chain.ops[i])>> \o ChainWordsFrom(chain, i + 1))

ChainWords(chain) == ChainWordsFrom(chain, 1)

\* One expression of every form, as words.
FormInputs ==
    { <<"a">>, <<"foo">>, <<"7">>, <<"0", "0", "7">>, <<"true">>, <<"false">>,
      <<"\"", "a", "\"">>, <<"\"", "\"">>,
      <<"!", "a">>, <<"-", "7">>, <<"!", "-", "a">>,
      <<"a", "+", "b">>, <<"a", "-", "-", "b">>, <<"(", "a", "+", "b", ")", "*", "c">>,
      <<"a", "!=", "!", "b">>,
      <<"a", "(", ")">>, <<"add", "(", "1", ",", "2", "*", "3", ",", "4", "+", "5", ")">>,
      <<"a", "+", "add", "(", "b", "*", "c", ")", "+", "d">>,
      <<"(", "a", "+", "b", ")", "(", "c", ")">>, <<"a", "(", "b", ")", "(", "c", ")">>,
      <<"if", "(", "a", ")", "{", "}">>,
      <<"if", "(", "a", ")", "{", "}", "else", "{", "}">>,
      <<"if", "(", "a", ")", "{", "b", "}">>,
      <<"if", "(", "a", "<", "b", ")", "{", "a", "}", "else", "{", "b", "}">>,
      <<"fn", "(", ")", "{", "}">>, <<"fn", "(", "x", ",", "y", ")", "{", "}">>,
      <<"fn", "(", "x", ")", "{", "x", "+", "2", ";", "}">>,
      <<"fn", "(", "x", ")", "{", "return", "x", ";", "}", "(", "5", ")">>,
      <<"fn", "(", "x", ",", "y", ")", "{", "x", "+", "y", ";", "}",
        "(", "1", ",", "2", ")", ";">> }

\* The most statements of a program built from StatementShapes.
MaxProgramStmts == 3

\* let a = 1   let b = a   return a;   a;
StatementShapes == {"let_int", "let_id", "return", "expr"}

\* A program: its statements by shape, and for each whether its semicolon is
\* written; only a let may go without.
StatementPrograms ==
    UNION {{[kind |-> "stmts", stmts |-> st, semi |-> se] :
                se \in {f \in [1..Len(st) -> BOOLEAN] :
                            \A i \in 1..Len(st) :
                                st[i] \in {"return", "expr"} => f[i]}} :
            st \in SeqsUpTo(StatementShapes, MaxProgramStmts) \ {<<>>}}

StatementWords(shape, semi) ==
    (CASE shape = "let_int" -> <<"let", "a", "=", "1">>
       [] shape = "let_id" -> <<"let", "b", "=", "a">>
       [] shape = "return" -> <<"return", "a">>
       [] shape = "expr" -> <<"a">>)
    \o (IF semi THEN <<";">> ELSE <<>>)

RECURSIVE StatementProgramWordsFrom(_, _)
StatementProgramWordsFrom(x, i) ==
    IF i > Len(x.stmts) THEN <<>>
    ELSE StatementWords(x.stmts[i], x.semi[i]) \o StatementProgramWordsFrom(x, i + 1)

\* The operands of the infix programs: two integers, the booleans, a string,
\* an if without alternative that gives Null, a function.
InfixOperandShapes == {"one", "two", "true", "false", "string", "null", "function"}

InfixOperandWords(shape) ==
    CASE shape = "one" -> <<"1">>
      [] shape = "two" -> <<"2">>
      [] shape = "true" -> <<"true">>
      [] shape = "false" -> <<"false">>
      [] shape = "string" -> <<"\"", "s", "\"">>
      [] shape = "null" -> <<"if", "(", "false", ")", "{", "1", "}">>
      [] shape = "function" -> <<"fn", "(", ")", "{", "}">>

\* left op right;  for every operator and every pair of operands
InfixPrograms ==
    {[kind |-> "infix", op |-> o, left |-> l, right |-> r] :
        o \in BinaryOps, l \in InfixOperandShapes, r \in InfixOperandShapes}

IsInfixProgram(x) == x.kind = "infix"

InfixProgramWords(x) ==
    InfixOperandWords(x.left) \o <<OpWord(x.op)>> \o InfixOperandWords(x.right)
    \o <<";">>

\* The conditions of the if programs: the operands of the infix programs,
\* the integer 0 and the empty string.
ConditionShapes == InfixOperandShapes \cup {"zero", "empty"}

ConditionWords(shape) ==
    CASE shape = "zero" -> <<"0">>
      [] shape = "empty" -> <<"\"", "\"">>
      [] OTHER -> InfixOperandWords(shape)

\* if (condition) { 5 };  and  if (condition) { 5 } else { 6 };
IfPrograms ==
    {[kind |-> "if", condition |-> c, else |-> e] :
        c \in ConditionShapes, e \in BOOLEAN}

IsIfProgram(x) == x.kind = "if"

IfProgramWords(x) ==
    <<"if", "(">> \o ConditionWords(x.condition) \o <<")", "{", "5", "}">>
    \o (IF x.else THEN <<"else", "{", "6", "}">> ELSE <<>>)
    \o <<";">>

\* What stands between the ) after an if's condition and the {: nothing, or
\* an operator with its operand, a parenthesized group, a stray token.
IfGaps ==
    { <<>>, <<"+", "b">>, <<"+", "(", "b", ")">>, <<"(", "b", ")">>,
      <<"==", "(", "b", ")">>, <<"(", ")">>, <<"b">>, <<")">>,
      <<"*", "(", "b", ")", "(", "c", ")">> }

\* if (a) gap { c }   and   if (a) gap { c } else { d }
IfGapPrograms ==
    {[kind |-> "ifgap", gap |-> g, else |-> e] : g \in IfGaps, e \in BOOLEAN}

IsIfGapProgram(x) == x.kind = "ifgap"

IfGapProgramWords(x) ==
    <<"if", "(", "a", ")">> \o x.gap \o <<"{", "c", "}">>
    \o (IF x.else THEN <<"else", "{", "d", "}">> ELSE <<>>)

\* The most statements in the block of a BlockPrograms sample.
MaxBlockStmts == 2

\* What follows the block's }: nothing, a semicolon, one more statement.
BlockTails == { <<>>, <<";">>, <<"b">> }

\* fn() { statements } tail : the statements by shape, each with or without
\* its semicolon; closed says whether the } and the tail are written.
BlockPrograms ==
    UNION {{[kind |-> "block", stmts |-> st, semi |-> se, closed |-> TRUE, tail |-> t] :
                se \in [1..Len(st) -> BOOLEAN], t \in BlockTails}
           \cup
           {[kind |-> "block", stmts |-> st, semi |-> se, closed |-> FALSE,
             tail |-> <<>>] : se \in [1..Len(st) -> BOOLEAN]} :
            st \in SeqsUpTo(StatementShapes, MaxBlockStmts)}

IsBlockProgram(x) == x.kind = "block"

BlockProgramWords(x) ==
    <<"fn", "(", ")", "{">> \o StatementProgramWordsFrom(x, 1)
    \o (IF x.closed THEN <<"}">> \o x.tail ELSE <<>>)

\* Statements that do not parse, each up to the token that is not accepted.
FaultWords ==
    [return_no_semi |-> <<"return", "a">>,
     return_no_value |-> <<"return", ";">>,
     let_no_name |-> <<"let", "1", "=", "2", ";">>,
     let_no_assign |-> <<"let", "a", "1">>,
     let_no_value |-> <<"let", "a", "=", ";">>,
     rparen |-> <<")">>,
     assign |-> <<"=">>,
     infix_no_right |-> <<"a", "+", ";">>,
     prefix_no_right |-> <<"-", "}">>,
     group_open |-> <<"(", "a", ";">>,
     call_open |-> <<"f", "(", "a", ";">>,
     call_no_comma |-> <<"f", "(", "a", "b">>,
     fn_no_lparen |-> <<"fn", "a">>,
     fn_parameter |-> <<"fn", "(", "1">>,
     fn_next_parameter |-> <<"fn", "(", "x", ",", ")">>,
     fn_parameters_open |-> <<"fn", "(", "x", "{">>,
     fn_no_body |-> <<"fn", "(", "x", ")", "a">>,
     if_no_lparen |-> <<"if", "a">>,
     if_no_rparen |-> <<"if", "(", "a", "{">>,
     if_longer_condition |-> <<"if", "(", "a", ")", "+", "b", "{">>,
     if_no_block |-> <<"if", "(", "a", ")", "b">>,
     else_no_block |-> <<"if", "(", "a", ")", "{", "}", "else", "b">>]

\* What follows the statement that does not parse: nothing, a statement that
\* parses, one that does not.
FaultTails == [none |-> <<>>, good |-> <<"b", ";">>, fault |-> <<")", ";">>]

\* let c = 1; (if before)  fault  tail
FaultyPrograms ==
    {[kind |-> "faulty", before |-> b, fault |-> f, tail |-> t] :
        b \in BOOLEAN, f \in DOMAIN FaultWords, t \in DOMAIN FaultTails}

IsFaultyProgram(x) == x.kind = "faulty"

FaultyProgramWords(x) ==
    (IF x.before THEN <<"let", "c", "=", "1", ";">> ELSE <<>>)
    \o FaultWords[x.fault] \o FaultTails[x.tail]

IsChain(x) == x.kind = "chain"

IsStatementProgram(x) == x.kind = "stmts"

WordsSample(ws) == [kind |-> "words", words |-> ws]

ParseSamples ==
    Chains \cup StatementPrograms \cup {WordsSample(ws) : ws \in FormInputs}
    \cup IfGapPrograms \cup BlockPrograms \cup FaultyPrograms

SampleWords(x) ==
    CASE IsChain(x) -> ChainWords(x)
      [] IsStatementProgram(x) -> StatementProgramWordsFrom(x, 1)
      [] IsInfixProgram(x) -> InfixProgramWords(x)
      [] IsIfProgram(x) -> IfProgramWords(x)
      [] IsIfGapProgram(x) -> IfGapProgramWords(x)
      [] IsBlockProgram(x) -> BlockProgramWords(x)
      [] IsFaultyProgram(x) -> FaultyProgramWords(x)
      [] OTHER -> x.words

InitParse ==
    /\ sample \in ParseSamples
    /\ source = Words(SampleWords(sample))
    /\ pc = "source"
    /\ lexer = Unset /\ toks = <<>>
    /\ parsed = Unset /\ parser = Unset /\ printed = <<>> /\ reparsed = Unset
    /\ heap = <<>> /\ log = <<>> /\ idx = 0 /\ result = Unset

\* main and the tests: Lexer::new, Parser::new, parse_program on the input.
Parse ==
    /\ pc = "source"
    /\ \E r \in {parse_program(ParserNew(LexerNew(source)))} :
           /\ parsed' = ParseResult(r)
           /\ parser' = r.p
    /\ pc' = IF parsed'.panic THEN "panicked"
             ELSE IF parsed'.ok THEN "parsed" ELSE "parse_error"
    /\ UNCHANGED <<sample, source, lexVars, printed, reparsed, evalVars>>

\* format!("{}", expr) of the expression of a one-statement program, as
\* test_operator_precedence_parsing does.
PrintExpression ==
    /\ pc = "parsed"
    /\ Len(parsed.program) = 1
    /\ parsed.program[1].type = "Expression"
    /\ printed' = DisplayExpression(parsed.program[1].value)
    /\ pc' = "printed"
    /\ UNCHANGED <<sample, source, lexVars, parsed, parser, reparsed, evalVars>>

\* The printed text parsed again.
Reparse ==
    /\ pc = "printed"
    /\ reparsed' = ParseSource(printed)
    /\ pc' = "reparsed"
    /\ UNCHANGED <<sample, source, lexVars, parsed, parser, printed, evalVars>>

NextParse == Parse \/ PrintExpression \/ Reparse

SpecParse == InitParse /\ [][NextParse]_vars

\* The level of a binary operator in Lowest < Equals < LessGreater < Sum <
\* Product < Prefix < Call.
RefLevel(op) ==
    CASE op \in {"Eq", "NotEq"} -> 1
      [] op \in {"LT", "GT"} -> 2
      [] op \in {"Plus", "Minus"} -> 3
      [] op \in {"Asterisk", "Slash"} -> 4

\* The tree of one operand: the call binds tighter than the prefix operator.
RefOperand(i, shape) ==
    LET id == IdentifierExpr(<<OperandNames[i]>>)
        call == CallExpr(id, <<IdentifierExpr(<<"z">>)>>)
    IN  CASE shape = "plain" -> id
          [] shape = "minus" -> PrefixExpr("Minus", id)
          [] shape = "bang" -> PrefixExpr("Bang", id)
          [] shape = "call" -> call
          [] shape = "minus_call" -> PrefixExpr("Minus", call)

RECURSIVE RefTree(_, _, _)
\* The tree the grouping rules give for operands lo..hi of a chain: the root
\* is the last of the operators of the lowest level among ops[lo..hi-1].
RefTree(chain, lo, hi) ==
    IF lo = hi THEN RefOperand(lo, chain.shapes[lo])
    ELSE LET low == CHOOSE k \in lo..(hi - 1) :
                        \A j \in lo..(hi - 1) :
                            \/ RefLevel(chain.ops[k]) < RefLevel(chain.ops[j])
                            \/ RefLevel(chain.ops[k]) = RefLevel(chain.ops[j]) /\ j <= k
         IN  InfixExpr(chain.ops[low], RefTree(chain, lo, low),
                       RefTree(chain, low + 1, hi))

\* C9: parse_expression groups operators of equal precedence to the left, a
\* higher precedence binds tighter, a prefix operator binds tighter than
\* every binary operator and a call tighter than a prefix operator.
C9_PrecedenceClimbing ==
    (pc \in {"parsed", "parse_error", "panicked"} /\ IsChain(sample)) =>
        /\ parsed.ok
        /\ parsed.program =
            <<ExpressionStmt(RefTree(sample, 1, Len(sample.ops) + 1))>>

\* a chain with a call inside a prefix operand, a prefix operand and a call,
\* joined by operators of two levels, has been parsed
C9_Witness ==
    /\ pc = "parsed" /\ IsChain(sample)
    /\ sample.ops = <<"Plus", "Asterisk">>
    /\ sample.shapes = <<"minus_call", "bang", "call">>
    /\ parsed.ok

\* C10: printing the parsed expression and parsing the text again gives the
\* same AST.
C10_RoundTrip == pc = "reparsed" => reparsed = parsed

\* the statement that a shape of StatementShapes stands for
RefStatement(shape) ==
    CASE shape = "let_int" -> LetStmt(IdentifierExpr(<<"a">>), IntegerExpr(<<"1">>))
      [] shape = "let_id" -> LetStmt(IdentifierExpr(<<"b">>), IdentifierExpr(<<"a">>))
      [] shape = "return" -> ReturnStmt(IdentifierExpr(<<"a">>))
      [] shape = "expr" -> ExpressionStmt(IdentifierExpr(<<"a">>))

\* C11: the semicolon after a let is optional and nothing else is consumed
\* after the value: a program whose lets go with or without their semicolon
\* parses to the Program of all its statements, in order.
C11_LetSemicolonOptional ==
    (pc \in {"parsed", "parse_error", "panicked"} /\ IsStatementProgram(sample)) =>
        /\ parsed.ok
        /\ parsed.program = [i \in 1..Len(sample.stmts) |-> RefStatement(sample.stmts[i])]

\* the if-expression of an IfGapPrograms sample whose gap is empty
RefIfGap(x) ==
    IfExpr(IdentifierExpr(<<"a">>),
           BlockStmt(<<ExpressionStmt(IdentifierExpr(<<"c">>))>>),
           IF x.else THEN <<BlockStmt(<<ExpressionStmt(IdentifierExpr(<<"d">>))>>)>>
           ELSE <<>>)

\* C21: the condition of an if is exactly the expression between the ( after
\* if and its matching ), and the token right after that ) must be {: with
\* nothing in between the if-expression parses with the condition a, and with
\* any other token in between the input is rejected with UnexpectedToken.
C21_IfConditionBetweenParens ==
    (pc \in {"parsed", "parse_error", "panicked"} /\ IsIfGapProgram(sample)) =>
        IF sample.gap = <<>>
        THEN /\ parsed.ok
             /\ parsed.program = <<ExpressionStmt(RefIfGap(sample))>>
        ELSE /\ ~parsed.ok /\ ~parsed.panic
             /\ parsed.err.kind = "UnexpectedToken"

\* the events of one kind in the parser's trace
Traced(kind) == {i \in DOMAIN parser.trace : parser.trace[i].ev = kind}

RECURSIVE CloseOf(_, _, _)
\* The place, from i on, of the } that closes a block with depth more blocks
\* open inside it, or of the EOF when the tokens end before; 0 when the
\* tokens fetched hold neither.
CloseOf(tokens, i, depth) ==
    IF i > Len(tokens) THEN 0
    ELSE CASE tokens[i].type = "EOF" -> i
           [] tokens[i].type = "RBrace" ->
                 IF depth = 0 THEN i ELSE CloseOf(tokens, i + 1, depth - 1)
           [] tokens[i].type = "LBrace" -> CloseOf(tokens, i + 1, depth + 1)
           [] OTHER -> CloseOf(tokens, i + 1, depth)

\* C22: whenever parse_block_statement returns without error, the current
\* token is the } that closes this block, or EOF when the input ends before
\* the block is closed, and the Block holds exactly the statements written
\* between the braces, however they are terminated.
C22_BlockEndsAtItsBrace ==
    pc \in {"parsed", "parse_error"} =>
        \A i \in Traced("block") :
            /\ parser.trace[i].close =
                   CloseOf(parser.fetched, parser.trace[i].open + 1, 0)
            /\ parser.trace[i].current = parser.fetched[parser.trace[i].close]
            /\ IsBlockProgram(sample) =>
                   parser.trace[i].statements =
                       [k \in 1..Len(sample.stmts) |-> RefStatement(sample.stmts[k])]

\* the token that follows the statement of a FaultyPrograms sample
RefTailToken(x) ==
    CASE x.tail = "none" -> Tok("EOF")
      [] x.tail = "good" -> [type |-> "Identifier", lit |-> <<"b">>]
      [] x.tail = "fault" -> Tok("RParen")

\* the error that the statement of a FaultyPrograms sample stands for
RefError(x) ==
    CASE x.fault = "return_no_semi" ->
            UnexpectedToken(Tok("SemiColon"), RefTailToken(x))
      [] x.fault = "return_no_value" -> InvalidToken(Tok("SemiColon"))
      [] x.fault = "let_no_name" ->
            UnexpectedToken([type |-> "Identifier", lit |-> <<>>],
                            [type |-> "IntLiteral", int |-> <<"1">>])
      [] x.fault = "let_no_assign" ->
            UnexpectedToken(Tok("Assign"), [type |-> "IntLiteral", int |-> <<"1">>])
      [] x.fault = "let_no_value" -> InvalidToken(Tok("SemiColon"))
      [] x.fault = "rparen" -> InvalidToken(Tok("RParen"))
      [] x.fault = "assign" -> InvalidToken(Tok("Assign"))
      [] x.fault = "infix_no_right" -> InvalidToken(Tok("SemiColon"))
      [] x.fault = "prefix_no_right" -> InvalidToken(Tok("RBrace"))
      [] x.fault = "group_open" -> UnexpectedToken(Tok("RParen"), Tok("SemiColon"))
      [] x.fault = "call_open" -> UnexpectedToken(Tok("RParen"), Tok("SemiColon"))
      [] x.fault = "call_no_comma" ->
            UnexpectedToken(Tok("RParen"), [type |-> "Identifier", lit |-> <<"b">>])
      [] x.fault = "fn_no_lparen" ->
            UnexpectedToken(Tok("LParen"), [type |-> "Identifier", lit |-> <<"a">>])
      [] x.fault = "fn_parameter" ->
            InvalidToken([type |-> "IntLiteral", int |-> <<"1">>])
      [] x.fault = "fn_next_parameter" -> InvalidToken(Tok("RParen"))
      [] x.fault = "fn_parameters_open" ->
            UnexpectedToken(Tok("RParen"), Tok("LBrace"))
      [] x.fault = "fn_no_body" ->
            UnexpectedToken(Tok("LBrace"), [type |-> "Identifier", lit |-> <<"a">>])
      [] x.fault = "if_no_lparen" ->
            UnexpectedToken(Tok("LParen"), [type |-> "Identifier", lit |-> <<"a">>])
      [] x.fault = "if_no_rparen" -> UnexpectedToken(Tok("RParen"), Tok("LBrace"))
      [] x.fault = "if_longer_condition" ->
            UnexpectedToken(Tok("RParen"), [type |-> "Identifier", lit |-> <<"b">>])
      [] x.fault = "if_no_block" ->
            UnexpectedToken(Tok("LBrace"), [type |-> "Identifier", lit |-> <<"b">>])
      [] x.fault = "else_no_block" ->
            UnexpectedToken(Tok("LBrace"), [type |-> "Identifier", lit |-> <<"b">>])

\* C23: parsing is fail-fast with structured errors.  A run that made an Err
\* made one only, as its last step, and parse_program returns that error
\* and no Program; a run that made none returns a Program.  The Err of a
\* failing expect_peek is UnexpectedToken with the peek token as actual, and
\* the token window is where it was; the Err for a token that cannot begin
\* an expression is InvalidToken of the current token.  Each statement of
\* FaultWords gives its error, whatever stands before and after it; a return
\* without semicolon gives UnexpectedToken{expected: SemiColon}.
C23_FailFast ==
    pc \in {"parsed", "parse_error"} =>
        /\ parsed.ok <=> Traced("error") = {}
        /\ parsed.ok <=> "program" \in DOMAIN parsed
        /\ \A i \in Traced("error") :
              /\ i = Len(parser.trace)
              /\ parsed.err = parser.trace[i].err
              /\ parser.trace[i].site = "expect_peek" =>
                    /\ parsed.err.kind = "UnexpectedToken"
                    /\ parsed.err.actual = parser.peek_token
                    /\ parsed.err.actual # parsed.err.expected
                    /\ parser.trace[i].at = Len(parser.fetched)
              /\ parser.trace[i].site = "expression" =>
                    parsed.err = InvalidToken(parser.current_token)
        /\ IsFaultyProgram(sample) =>
              /\ ~parsed.ok
              /\ parsed.err = RefError(sample)

\* a return statement without semicolon, after a statement that parses and
\* before another one, has given the error of expect_peek
C23_Witness ==
    /\ pc = "parse_error" /\ IsFaultyProgram(sample)
    /\ sample.before /\ sample.fault = "return_no_semi" /\ sample.tail = "good"
    /\ parser.trace[Len(parser.trace)].site = "expect_peek"
    /\ parsed.err = UnexpectedToken(Tok("SemiColon"),
                                    [type |-> "Identifier", lit |-> <<"b">>])

\* the loops of the parser: of parse_program, parse_block_statement,
\* parse_expression, parse_function_parameters and parse_call_arguments
ParserLoops == {"program", "block", "infix", "parameters", "arguments"}

\* C30: parse_program ends on a token stream that ends with EOF, with a
\* Program or an error: every iteration of a loop of the parser takes at
\* least one more token from the lexer, and no iteration begins when the
\* token its loop has tested is EOF, so none goes on behind the EOF.
C30_ParseEnds ==
    pc \in {"parsed", "parse_error"} =>
        /\ \A i \in Traced("iterated") : parser.trace[i].to > parser.trace[i].from
        /\ \A i \in Traced("iteration") : parser.trace[i].tok.type # "EOF"
        /\ IF parsed.ok
           THEN /\ DOMAIN parsed.program = 1..Len(parsed.program)
                /\ parser.current_token.type = "EOF"
           ELSE parsed.err.kind \in {"UnexpectedToken", "InvalidToken"}

\* a program has been parsed in which each of the five loops has iterated
C30_Witness ==
    /\ pc = "parsed"
    /\ {parser.trace[i].loop : i \in Traced("iterated")} = ParserLoops
    /\ parser.current_token.type = "EOF"

-----------------------------------------------------------------------------
(* Inputs of the evaluator runs                                            *)

\* The most statements of a program built from ClosureStatements.
MaxStmts == 3

\* Statements about closures: a global name, a function with a free name, a
\* caller with a local of the same name, and a function made inside a call.
ClosureStatements ==
    { <<"let", "x", "=", "1", ";">>,
      <<"let", "f", "=", "fn", "(", ")", "{", "x", "}", ";">>,
      <<"f", "(", ")", ";">>,
      <<"let", "g", "=", "fn", "(", ")", "{", "let", "x", "=", "2", ";", "f",
        "(", ")", "}", ";">>,
      <<"g", "(", ")", ";">>,
      <<"fn", "(", "y", ")", "{", "let", "k", "=", "fn", "(", ")", "{", "y",
        "+", "w", "}", ";", "let", "w", "=", "4", ";", "k", "(", ")", "}",
        "(", "5", ")", ";">> }

\* let newAdder = fn(x) { fn(y) { x + y } }; let addTwo = newAdder(2);
\* addTwo(3);  of test_function_application
NewAdderProgram ==
    <<"let", "newAdder", "=", "fn", "(", "x", ")", "{", "fn", "(", "y",
      ")", "{", "x", "+", "y", "}", "}", ";", "let", "addTwo", "=",
      "newAdder", "(", "2", ")", ";", "addTwo", "(", "3", ")", ";">>

\* Programs about recursion, return, operand errors and argument counts.
EvalInputs ==
    { NewAdderProgram,
      <<"let", "r", "=", "fn", "(", "n", ")", "{", "if", "(", "n", "<", "1",
        ")", "{", "0", "}", "else", "{", "r", "(", "n", "-", "1", ")", "}",
        "}", ";", "r", "(", "2", ")", ";">>,
      <<"let", "k", "=", "fn", "(", ")", "{", "if", "(", "true", ")", "{",
        "if", "(", "true", ")", "{", "return", "1", ";", "}", "}", "2", "}",
        ";", "k", "(", ")", ";", "9", ";">>,
      <<"let", "k", "=", "fn", "(", ")", "{", "if", "(", "true", ")", "{",
        "return", "1", ";", "}", "2", "}", ";", "let", "g", "=", "fn", "(",
        ")", "{", "k", "(", ")", ";", "3", "}", ";", "g", "(", ")", ";">>,
      <<"if", "(", "2", ">", "1", ")", "{", "if", "(", "2", ">", "1", ")",
        "{", "return", "5", ";", "}", "return", "1", ";", "}", "9", ";">>,
      <<"return", "1", ";", "9", ";">>,
      <<"let", "f", "=", "fn", "(", ")", "{", "return", "if", "(", "true",
        ")", "{", "return", "1", ";", "}", ";", "}", ";", "f", "(", ")", ";",
        "9", ";">>,
      <<"let", "f", "=", "fn", "(", ")", "{", "return", "if", "(", "true",
        ")", "{", "return", "1", ";", "}", ";", "}", ";", "let", "g", "=",
        "fn", "(", ")", "{", "f", "(", ")", ";", "3", "}", ";", "g", "(",
        ")", ";">>,
      <<"fn", "(", ")", "{", "1", "+", "if", "(", "true", ")", "{", "return",
        "5", ";", "}", "}", "(", ")", ";">>,
      <<"return", "if", "(", "true", ")", "{", "return", "1", ";", "}", ";">>,
      <<"foo", "+", "1", ";">>,
      <<"foo", "+", "(", "1", "+", "true", ")", ";">>,
      <<"1", "+", "foo", ";">>,
      <<"(", "1", "+", "true", ")", "+", "(", "true", "+", "1", ")", ";">>,
      <<"fn", "(", "x", ")", "{", "x", "}", "(", "1", ",", "2", ")", ";">>,
      <<"fn", "(", "x", ",", "y", ")", "{", "x", "}", "(", "1", ")", ";">>,
      <<"fn", "(", ")", "{", "1", "}", "(", "1", ")", ";">>,
      <<"fn", "(", "x", ")", "{", "x", "}", "(", "1", ")", ";">>,
      <<"1", "(", "2", ")", ";">>,
      <<"1", "/", "0", ";">> }

\* Programs about the loop of evaluate: the empty program, a let as the last
\* statement, statements after a top-level return and after an error, a let
\* whose value gives an error.
EvaluateInputs ==
    { <<>>,
      <<"9", ";">>,
      <<"9", ";", "let", "b", "=", "3", ";">>,
      <<"let", "b", "=", "3", ";", "b", ";", "7", ";">>,
      <<"return", "1", ";", "let", "z", "=", "2", ";", "foo", ";">>,
      <<"let", "a", "=", "1", ";", "return", "a", ";", "let", "a", "=", "2", ";",
        "9", ";">>,
      <<"if", "(", "true", ")", "{", "return", "4", ";", "}", "1", "+", "true", ";">>,
      <<"let", "a", "=", "foo", ";", "9", ";">>,
      <<"let", "a", "=", "1", ";", "let", "a", "=", "1", "+", "true", ";", "let",
        "z", "=", "2", ";">>,
      <<"foo", ";", "let", "z", "=", "1", ";">>,
      <<"let", "f", "=", "fn", "(", ")", "{", "let", "q", "=", "foo", ";", "let",
        "t", "=", "1", ";", "1", "}", ";", "f", "(", ")", ";", "9", ";">>,
      <<"let", "a", "=", "-", "true", "+", "foo", ";", "9", ";">> }

\* Programs whose calls bind, as a parameter or by a let, a name that an
\* outer scope binds too.
ShadowInputs ==
    { <<"let", "x", "=", "1", ";", "let", "h", "=", "fn", "(", "x", ")", "{",
        "let", "h", "=", "3", ";", "x", "}", ";", "h", "(", "7", ")", ";", "x", ";">>,
      <<"let", "x", "=", "1", ";", "let", "o", "=", "fn", "(", "y", ")", "{",
        "let", "i", "=", "fn", "(", "y", ")", "{", "let", "x", "=", "y", ";", "x",
        "}", ";", "i", "(", "8", ")", "+", "y", "+", "x", "}", ";", "o", "(", "2",
        ")", ";">>,
      <<"let", "x", "=", "1", ";", "let", "s", "=", "fn", "(", ")", "{", "if",
        "(", "true", ")", "{", "let", "x", "=", "5", ";", "}", "x", "}", ";",
        "s", "(", ")", ";", "x", ";">>,
      <<"let", "x", "=", "1", ";", "let", "u", "=", "fn", "(", ")", "{", "x", "}",
        ";", "let", "x", "=", "2", ";", "u", "(", ")", ";">> }

\* Programs about the order of a call: several arguments, an argument that
\* gives an error before others, a callee that is unbound or not a function.
CallInputs ==
    { <<"let", "f", "=", "fn", "(", "a", ",", "b", ",", "c", ")", "{", "b", "}",
        ";", "f", "(", "1", ",", "2", ",", "3", ")", ";">>,
      <<"let", "f", "=", "fn", "(", "a", ",", "b", ")", "{", "a", "}", ";", "f",
        "(", "foo", ",", "1", "+", "true", ")", ";">>,
      <<"let", "f", "=", "fn", "(", "a", ",", "b", ",", "c", ")", "{", "a", "}",
        ";", "f", "(", "1", ",", "1", "+", "true", ",", "foo", ")", ";">>,
      <<"foo", "(", "1", "+", "true", ")", ";">>,
      <<"foo", "(", "1", ")", ";">>,
      <<"1", "(", "foo", ")", ";">>,
      <<"1", "(", "2", ",", "3", ")", ";">>,
      <<"true", "(", "fn", "(", ")", "{", "1", "}", "(", ")", ",", "2", ")", ";">>,
      <<"let", "f", "=", "fn", "(", "a", ")", "{", "a", "}", ";", "f", "(", "f",
        "(", "1", ")", ")", ";">>,
      <<"fn", "(", "a", ")", "{", "a", "}", "(", "fn", "(", ")", "{", "foo", "}",
        "(", ")", ",", "2", ")", ";">> }

\* Programs about the scopes of calls and of the blocks of an if: a let in a
\* block, at the top level and in a call; two calls of one function value; a
\* function that calls itself through the scope that holds it; a return in
\* a block where the if-expression is a let's value, an argument, an operand.
ScopeInputs ==
    { <<"let", "f", "=", "fn", "(", "x", ")", "{", "if", "(", "x", ")", "{",
        "let", "a", "=", "1", ";", "a", "}", "else", "{", "a", "}", "}", ";",
        "f", "(", "true", ")", ";", "f", "(", "false", ")", ";">>,
      <<"let", "f", "=", "fn", "(", "x", ")", "{", "let", "a", "=", "x", ";", "a",
        "}", ";", "f", "(", "1", ")", ";", "f", "(", "2", ")", ";", "a", ";">>,
      <<"if", "(", "true", ")", "{", "let", "a", "=", "1", ";", "}", ";", "a", ";">>,
      <<"if", "(", "false", ")", "{", "let", "a", "=", "1", ";", "}", "else", "{",
        "let", "a", "=", "2", ";", "}", ";", "a", ";">>,
      <<"let", "f", "=", "fn", "(", "c", ")", "{", "if", "(", "c", ")", "{",
        "let", "a", "=", "2", ";", "}", "else", "{", "let", "a", "=", "3", ";",
        "}", ";", "a", "}", ";", "f", "(", "false", ")", ";">>,
      <<"let", "f", "=", "fn", "(", ")", "{", "if", "(", "true", ")", "{",
        "let", "a", "=", "2", ";", "}", ";", "a", "}", ";", "f", "(", ")", ";",
        "a", ";">>,
      <<"let", "a", "=", "1", ";", "if", "(", "true", ")", "{", "let", "a", "=",
        "2", ";", "}", ";", "a", ";">>,
      <<"let", "a", "=", "if", "(", "true", ")", "{", "return", "1", ";", "}",
        ";", "a", ";", "9", ";">>,
      <<"let", "f", "=", "fn", "(", "x", ")", "{", "x", "}", ";", "f", "(", "if",
        "(", "true", ")", "{", "return", "1", ";", "}", ")", ";">>,
      <<"-", "if", "(", "true", ")", "{", "return", "1", ";", "}", ";">>,
      <<"let", "f", "=", "fn", "(", "n", ")", "{", "if", "(", "n", ")", "{", "f",
        "(", "false", ")", "}", "else", "{", "g", "}", "}", ";", "let", "g", "=",
        "5", ";", "f", "(", "true", ")", ";">> }

\* the statements of a program one after the other
ProgramWords(stmts) == Concat(stmts)

EvalSamples ==
    {WordsSample(ProgramWords(stmts)) :
        stmts \in SeqsUpTo(ClosureStatements, MaxStmts) \ {<<>>}}
    \cup {WordsSample(ws) : ws \in EvalInputs \cup EvaluateInputs \cup ShadowInputs
                                     \cup CallInputs \cup ScopeInputs}
    \cup InfixPrograms \cup IfPrograms

InitEval ==
    /\ sample \in EvalSamples
    /\ source = Words(SampleWords(sample))
    /\ pc = "source"
    /\ lexer = Unset /\ toks = <<>>
    /\ parsed = Unset /\ parser = Unset /\ printed = <<>> /\ reparsed = Unset
    /\ heap = <<>> /\ log = <<>> /\ idx = 0 /\ result = Unset

\* Evaluator::new and the entry of Evaluator::evaluate: the global cell is
\* cell 1, result is Object::Null, the loop is at the first statement.
EvaluatorNew ==
    /\ pc = "parsed"
    /\ heap' = <<EnvironmentNew>>
    /\ log' = <<>>
    /\ idx' = 1
    /\ result' = [ok |-> TRUE, val |-> NullObj]
    /\ pc' = "evaluate"
    /\ UNCHANGED <<sample, source, lexVars, parVars>>

\* a loop that takes no value for a Return sentinel
IsReturnNever(obj) == FALSE

\* if let Object::Return(return_value) = result, in Evaluator::evaluate
IsReturn(obj) == obj.type = "Return"

\* One iteration of the loop of Evaluator::evaluate: eval_statement(stmt)?,
\* then the return of an Object::Return's value.  The log gets the statement's
\* index and Result.
EvaluateStatement ==
    /\ pc = "evaluate"
    /\ idx <= Len(parsed.program)
    /\ \E r \in {eval_statement([heap |-> heap, log |-> log], 1, parsed.program[idx])} :
           /\ heap' = r.st.heap
           /\ log' = Append(r.st.log, [ev |-> "top", idx |-> idx, ok |-> r.ok,
                                       res |-> Res(r)])
           /\ IF ~r.ok
              THEN /\ result' = [ok |-> FALSE, err |-> r.err]
                   /\ pc' = IF r.err.kind = "Panic" THEN "panicked" ELSE "done"
                   /\ idx' = idx
              ELSE IF IsReturn(r.val)
              THEN /\ result' = [ok |-> TRUE, val |-> r.val.value]
                   /\ pc' = "done"
                   /\ idx' = idx
              ELSE /\ result' = [ok |-> TRUE, val |-> r.val]
                   /\ pc' = "evaluate"
                   /\ idx' = idx + 1
    /\ UNCHANGED <<sample, source, lexVars, parVars>>

\* The end of the loop of Evaluator::evaluate: Ok(result).
EvaluateEnd ==
    /\ pc = "evaluate"
    /\ idx > Len(parsed.program)
    /\ pc' = "done"
    /\ UNCHANGED <<sample, source, lexVars, parVars, evalVars>>

NextEval == Parse \/ EvaluatorNew \/ EvaluateStatement \/ EvaluateEnd

SpecEval == InitEval /\ [][NextEval]_vars

-----------------------------------------------------------------------------
(* The shell: src/repl/main.rs                                             *)
(*                                                                         *)
(* sample is the session: what rl.readline gives, call after call.  idx is *)
(* the number of calls made, source the line just read, printed what the   *)
(* shell has written so far; heap and log are those of the last line that  *)
(* was evaluated.                                                          *)

\* The most calls of readline in a session.
MaxLines == 2

\* The lines typed: two that evaluate, one that reads a name, one that does
\* not parse, one that gives an evaluation error, a division by zero.
ReplLines ==
    { <<"let", "a", "=", "1", ";">>, <<"a", ";">>, <<"5", ";">>,
      <<"let", "a", "1", ";">>, <<"1", "+", "true", ";">>, <<"1", "/", "0", ";">> }

\* What readline returns: Ok(line), or Err of ReadlineError::Interrupted,
\* ReadlineError::Eof or another ReadlineError.
ReadlineResults ==
    {[ok |-> TRUE, line |-> ws] : ws \in ReplLines}
    \cup {[ok |-> FALSE, err |-> e] : e \in {"Interrupted", "Eof", "Io"}}

Sessions == SeqsUpTo(ReadlineResults, MaxLines) \ {<<>>}

RECURSIVE EvaluateFrom(_, _, _)
\* the loop of Evaluator::evaluate over the statements left, with the result
\* so far
EvaluateFrom(st, stmts, last) ==
    IF stmts = <<>> THEN EOk(st, last)
    ELSE The({ IF ~r.ok THEN r
               ELSE IF IsReturn(r.val) THEN EOk(r.st, r.val.value)
               ELSE EvaluateFrom(r.st, Tail(stmts), r.val)
               : r \in {eval_statement(st, 1, Head(stmts))} })

\* Evaluator::evaluate
evaluate(st, program) == EvaluateFrom(st, program, NullObj)

\* a shell that makes its Evaluator once and keeps it from line to line
ReplEvaluatorKept(h) ==
    IF h = <<>> THEN [heap |-> <<EnvironmentNew>>, log |-> <<>>]
    ELSE [heap |-> h, log |-> <<>>]

\* let mut eval = lib::eval::Evaluator::new(), in the loop's body: h is the
\* heap that the line before left
ReplEvaluator(h) == [heap |-> <<EnvironmentNew>>, log |-> <<>>]

\* What the shell writes for a line: the value with println!, an error with
\* eprintln!.
Written(r) ==
    IF r.ok THEN [to |-> "stdout", ok |-> TRUE, val |-> r.val]
    ELSE [to |-> "stderr", ok |-> FALSE, err |-> r.err]

\* What the shell writes when readline gives an Err.
WrittenAtExit(err) ==
    [to |-> "stdout",
     text |-> CASE err = "Interrupted" -> "CTRL-C" [] err = "Eof" -> "CTRL-D"
                [] OTHER -> "Error"]

InitRepl ==
    /\ sample \in Sessions
    /\ source = <<>>
    /\ pc = "prompt"
    /\ lexer = Unset /\ toks = <<>>
    /\ parsed = Unset /\ parser = Unset /\ printed = <<>> /\ reparsed = Unset
    /\ heap = <<>> /\ log = <<>> /\ idx = 0 /\ result = Unset

\* let line = rl.readline(">> ") and the match on it: a line goes to the
\* lexer, an Err ends the loop.
ReplReadLine ==
    /\ pc = "prompt"
    /\ idx < Len(sample)
    /\ idx' = idx + 1
    /\ IF sample[idx'].ok
       THEN /\ source' = Words(sample[idx'].line)
            /\ pc' = "line"
            /\ printed' = printed
       ELSE /\ source' = source
            /\ pc' = "exited"
            /\ printed' = Append(printed, WrittenAtExit(sample[idx'].err))
    /\ UNCHANGED <<sample, lexVars, parsed, parser, reparsed, heap, log, result>>

\* The Ok(line) arm: Lexer::new, Parser::new, parse_program, and for a
\* Program Evaluator::new and evaluate; what comes out is written and the
\* loop goes on.  A panic of the lexer or of the evaluator ends the process.
ReplRunLine ==
    /\ pc = "line"
    /\ \E r \in {parse_program(ParserNew(LexerNew(source)))} :
           /\ parsed' = ParseResult(r)
           /\ parser' = r.p
    /\ IF parsed'.panic
       THEN /\ pc' = "panicked"
            /\ UNCHANGED <<printed, heap, log, result>>
       ELSE IF ~parsed'.ok
       THEN /\ pc' = "prompt"
            /\ printed' = Append(printed, Written(parsed'))
            /\ UNCHANGED <<heap, log, result>>
       ELSE \E e \in {evaluate(ReplEvaluator(heap), parsed'.program)} :
               /\ heap' = e.st.heap
               /\ log' = e.st.log
               /\ result' = IF e.ok THEN [ok |-> TRUE, val |-> e.val]
                             ELSE [ok |-> FALSE, err |-> e.err]
               /\ IF ~e.ok /\ e.err.kind = "Panic"
                  THEN pc' = "panicked" /\ printed' = printed
                  ELSE pc' = "prompt" /\ printed' = Append(printed, Written(e))
    /\ UNCHANGED <<sample, source, lexVars, reparsed, idx>>

NextRepl == ReplReadLine \/ ReplRunLine

SpecRepl == InitRepl /\ [][NextRepl]_vars

-----------------------------------------------------------------------------
(* The log of a run, read back                                             *)

\* Cell 1 is the global scope; every other cell is the scope of one call.
IsCallScope(c) == c > 1

Events(kind) == {i \in DOMAIN log : log[i].ev = kind}

Max(S) == CHOOSE m \in S : \A k \in S : k <= m

\* The events before event i that bind name n in scope s: a let, or a
\* parameter bound by a call.
Bound(s, n, i) ==
    {k \in 1..(i - 1) :
        /\ log[k].ev \in {"let", "bind"}
        /\ log[k].self = s
        /\ log[k].name = n}

\* the event where the call that owns scope c began
EnterOf(c) == CHOOSE e \in Events("enter") : log[e].self = c

\* the event that made the function value called in scope c
CreationOf(c) ==
    Max({k \in 1..EnterOf(c) : log[k].ev = "fn" /\ log[k].val = log[EnterOf(c)].function})

\* the scope where the function called in scope c was defined
Definer(c) == log[CreationOf(c)].self

RECURSIVE LexicalLookup(_, _, _)
\* What the scoping rule gives for name n read at event i in scope s: the
\* latest binding in s, else in the scope that defined s's function, and so
\* on up to the global scope.
LexicalLookup(s, n, i) ==
    IF Bound(s, n, i) # {} THEN <<log[Max(Bound(s, n, i))].val>>
    ELSE IF ~IsCallScope(s) THEN <<>>
    ELSE LexicalLookup(Definer(s), n, i)

\* C1: a return executed inside a function call ends exactly that call: the
\* very next thing that happens is the end of the call whose scope executed
\* the return, with the returned value as the call's value; and the top-level
\* evaluation ends early only by a return executed at the top level.
C1_ReturnEndsItsCall ==
    /\ \A i \in Events("return") :
          IsCallScope(log[i].self) =>
              /\ i < Len(log)
              /\ log[i + 1].ev = "applied"
              /\ log[i + 1].evaluator = log[i].self
              /\ log[i + 1].ok
              /\ log[i + 1].res = log[i].val
    /\ (pc = "done" /\ result.ok /\ idx <= Len(parsed.program)) =>
          \E i \in Events("return") : ~IsCallScope(log[i].self)

\* C2: the value that Evaluator::evaluate returns is never an Object::Return.
C2_NeverReturnsSentinel ==
    (pc = "done" /\ result.ok) => result.val.type # "Return"

\* C3: inside a call, a name that the call's own scope does not bind and
\* that the defining scope S of the function binds, before or after the
\* function was created, is found with the latest value bound in S.
C3_CaptureByReference ==
    \A i \in Events("get") :
        (/\ IsCallScope(log[i].self)
         /\ Bound(log[i].self, log[i].name, i) = {}
         /\ Bound(Definer(log[i].self), log[i].name, i) # {})
        => log[i].found =
              <<log[Max(Bound(Definer(log[i].self), log[i].name, i))].val>>

\* a function made inside a call reads, when called, a name that a let of
\* the defining call scope bound after the function was made
C3_Witness ==
    \E i \in Events("get") :
        /\ IsCallScope(log[i].self)
        /\ IsCallScope(Definer(log[i].self))
        /\ Bound(log[i].self, log[i].name, i) = {}
        /\ \E k \in Bound(Definer(log[i].self), log[i].name, i) :
              log[k].ev = "let" /\ k > CreationOf(log[i].self)
        /\ log[i].found # <<>>

\* C4: inside a call every name is looked up in the call's own scope and then
\* in the chain of defining scopes, never in the caller's scope; and
\* newAdder(2) then addTwo(3) gives 5.
C4_LexicalScoping ==
    /\ \A i \in Events("get") :
          IsCallScope(log[i].self) =>
              log[i].found = LexicalLookup(log[i].self, log[i].name, i)
    /\ (sample = WordsSample(NewAdderProgram) /\ pc \in {"done", "panicked"}) =>
          result = [ok |-> TRUE, val |-> IntegerObj(5)]

\* a callee read a name that only its caller's local scope binds, and did
\* not find it
C4_Witness ==
    \E i \in Events("get") :
        /\ IsCallScope(log[i].self)
        /\ IsCallScope(log[EnterOf(log[i].self)].caller)
        /\ Bound(log[EnterOf(log[i].self)].caller, log[i].name, i) # {}
        /\ log[i].found = <<>>

\* C5: the left operand of an infix expression is evaluated first, and when
\* it gives an error the right operand is not evaluated and that error is
\* the result.
C5_LeftBeforeRight ==
    \A i \in Events("infix") :
        /\ log[i].operands[1].side = "left"
        /\ \A k \in DOMAIN log[i].operands :
              (log[i].operands[k].side = "left" /\ ~log[i].operands[k].ok) =>
                  /\ Len(log[i].operands) = 1
                  /\ ~log[i].ok
                  /\ log[i].res = log[i].operands[k].res

\* C6: a call of a function of p parameters with a # p arguments gives
\* IncorrectNumberOfArguments with expected = p and actual = a at once: no
\* scope is made, no parameter bound and the body not evaluated.
C6_ArgumentCount ==
    \A i \in Events("apply") :
        (/\ log[i].function.type = "Function"
         /\ Len(log[i].function.parameters) # Len(log[i].args))
        => /\ log[i + 1].ev = "applied"
           /\ ~log[i + 1].ok
           /\ log[i + 1].res =
                 [kind |-> "IncorrectNumberOfArguments",
                  expected |-> Len(log[i].function.parameters),
                  actual |-> Len(log[i].args)]

\* the top-level statements that gave a Return sentinel
TopReturns == {i \in Events("top") : log[i].ok /\ log[i].res.type = "Return"}

\* C12: evaluate returns the value of the last top-level statement, Null for
\* an empty program and after a final let; a top-level statement that gives a
\* Return sentinel holding v is the last thing evaluated and the result is v.
C12_EvaluateResult ==
    /\ \A i \in Events("top") :
          log[i].idx = Cardinality({k \in Events("top") : k <= i})
    /\ \A i \in TopReturns : i = Len(log)
    /\ (pc = "done" /\ result.ok) =>
          IF TopReturns # {}
          THEN result.val = log[Len(log)].res.value
          ELSE /\ Cardinality(Events("top")) = Len(parsed.program)
               /\ IF parsed.program = <<>>
                  THEN result.val = NullObj /\ log = <<>>
                  ELSE /\ log[Len(log)].ev = "top"
                       /\ result.val = log[Len(log)].res
                       /\ Last(parsed.program).type = "Let" => result.val = NullObj
                       /\ (/\ Last(parsed.program).type = "Expression"
                           /\ Last(parsed.program).value.type = "Integer")
                          => result.val =
                                IntegerObj(DigitsToInt(Last(parsed.program).value.value))

\* return 1; let z = 2; foo;  has ended with 1, z unbound, two statements
\* never evaluated
C12_Witness ==
    /\ pc = "done"
    /\ result.ok /\ result.val.type = "Integer" /\ result.val.value = 1
    /\ Len(parsed.program) = 3
    /\ TopReturns = {Len(log)}
    /\ log[Len(log)].idx = 1
    /\ DOMAIN heap[1].store = {}

\* the events that carry the Result of something evaluated: an infix
\* expression, an argument, an argument list, a function expression of a
\* call, a call, a top-level statement
EndEvents == {"infix", "arg", "args", "callee", "applied", "top"}

\* the events that are an error: a lookup that found nothing, and an end
\* with an Err
IsErrorEvent(i) ==
    \/ log[i].ev = "get" /\ log[i].found = <<>>
    \/ log[i].ev \in EndEvents /\ ~log[i].ok

ErrorOf(i) ==
    IF log[i].ev = "get" THEN [kind |-> "IdentifierNotFound"] ELSE log[i].res

\* every cell's store holds exactly the names that lets and parameter
\* bindings of its scope bound, each with the latest value bound
HeapMatchesLog ==
    \A c \in DOMAIN heap :
        /\ DOMAIN heap[c].store =
              {log[k].name : k \in {j \in DOMAIN log : /\ log[j].ev \in {"let", "bind"}
                                                       /\ log[j].self = c}}
        /\ \A n \in DOMAIN heap[c].store :
              heap[c].store[n] = log[Max(Bound(c, n, Len(log) + 1))].val

AppliedOf(c) ==
    IF \E k \in Events("applied") : log[k].evaluator = c
    THEN CHOOSE k \in Events("applied") : log[k].evaluator = c
    ELSE Len(log) + 1

\* a statement that is a call of a name or of a function literal with
\* literals and names for arguments
IsPlainCall(stmt) ==
    /\ stmt.type = "Expression"
    /\ stmt.value.type = "Call"
    /\ stmt.value.function.type \in {"Identifier", "Function"}
    /\ \A k \in DOMAIN stmt.value.arguments :
          stmt.value.arguments[k].type \in {"Identifier", "Integer", "Boolean"}

\* C14: a let and a parameter binding write only to the innermost scope:
\* while a call runs, every binding is made in the call's own scope or in
\* the scope of a call made later, every store holds what its own scope
\* bound, and a call leaves every scope that existed before it as it was.
C14_WritesInnermostOnly ==
    /\ [](/\ HeapMatchesLog
          /\ \A e \in Events("enter") :
                \A k \in (e + 1)..(AppliedOf(log[e].self) - 1) :
                    log[k].ev \in {"let", "bind"} => log[k].self >= log[e].self)
    /\ [][(/\ pc = "evaluate" /\ idx <= Len(parsed.program)
           /\ IsPlainCall(parsed.program[idx])
           /\ log' # log)
          => \A c \in DOMAIN heap : heap'[c] = heap[c]]_vars

\* a call that bound a parameter named as a global binding has returned, and
\* the global binding reads as before
C14_Witness ==
    /\ pc = "done"
    /\ result.ok /\ result.val.type = "Integer" /\ result.val.value = 1
    /\ \E k \in Events("bind") :
          /\ IsCallScope(log[k].self)
          /\ Bound(1, log[k].name, k) # {}
          /\ log[k].val.type = "Integer"
          /\ log[k].val.value = 7
          /\ AppliedOf(log[k].self) <= Len(log)
          /\ heap[1].store[log[k].name] = IntegerObj(1)

RECURSIVE ChainLookup(_, _, _)
\* What the chain of scope s binds to name n at event i: the latest binding
\* in s, else what the chain of the outer scope of s binds.
ChainLookup(s, n, i) ==
    IF Bound(s, n, i) # {} THEN <<log[Max(Bound(s, n, i))].val>>
    ELSE IF heap[s].outer = <<>> THEN <<>>
    ELSE ChainLookup(heap[s].outer[1], n, i)

\* C15: a lookup gives the value bound in the innermost scope of the chain
\* that binds the name, and nothing only when no scope of the chain binds
\* it; an identifier whose lookup gives nothing is IdentifierNotFound.
C15_InnermostBindingWins ==
    \A i \in Events("get") :
        /\ log[i].found = ChainLookup(log[i].self, log[i].name, i)
        /\ log[i].found = <<>> =>
              /\ pc = "done"
              /\ ~result.ok
              /\ result.err.kind = "IdentifierNotFound"

\* a name was read in a call scope that binds it while the outer scope binds
\* it to another value, and the inner value was found
C15_Witness ==
    \E i \in Events("get") :
        /\ IsCallScope(log[i].self)
        /\ Bound(log[i].self, log[i].name, i) # {}
        /\ Bound(heap[log[i].self].outer[1], log[i].name, i) # {}
        /\ log[i].found # <<>>
        /\ log[i].found[1].type = "Integer"
        /\ log[Max(Bound(heap[log[i].self].outer[1], log[i].name, i))].val.type = "Integer"
        /\ log[i].found[1].value #
              log[Max(Bound(heap[log[i].self].outer[1], log[i].name, i))].val.value

\* the type of the value that an operand of InfixOperandShapes gives
RefType(shape) ==
    CASE shape \in {"one", "two"} -> "Integer"
      [] shape \in {"true", "false"} -> "Bool"
      [] shape = "string" -> "String"
      [] shape = "null" -> "Null"
      [] shape = "function" -> "Function"

\* the infix expressions whose two operands gave a value
InfixApplied ==
    {i \in Events("infix") :
        Len(log[i].operands) = 2 /\ log[i].operands[1].ok /\ log[i].operands[2].ok}

\* the type of the value of the left or right operand of infix event i
OperandType(i, side) ==
    (CHOOSE o \in {log[i].operands[k] : k \in 1..2} : o.side = side).res.type

\* an infix program has been parsed to its one infix expression and evaluated
InfixProgramDone ==
    /\ pc = "done"
    /\ Len(parsed.program) = 1
    /\ parsed.program[1].type = "Expression"
    /\ parsed.program[1].value.type = "Infix"
    /\ parsed.program[1].value.operator = sample.op

\* C16: two Bool operands with an operator other than == and != give
\* UnknownOperator{op, Bool, Bool}; an Integer and a Bool operand give, for
\* every operator, TypeMismatch{op, left, right} with the type of the left
\* operand of the expression as left and that of the right one as right.
C16_BoolAndMixedOperands ==
    /\ \A i \in InfixApplied :
          /\ (/\ OperandType(i, "left") = "Bool" /\ OperandType(i, "right") = "Bool"
              /\ log[i].expr.operator \notin {"Eq", "NotEq"})
             => /\ ~log[i].ok
                /\ log[i].res = [kind |-> "UnknownOperator",
                                 operator |-> log[i].expr.operator,
                                 left |-> "Bool", right |-> "Bool"]
          /\ {OperandType(i, "left"), OperandType(i, "right")} = {"Integer", "Bool"}
             => /\ ~log[i].ok
                /\ log[i].res = [kind |-> "TypeMismatch",
                                 operator |-> log[i].expr.operator,
                                 left |-> OperandType(i, "left"),
                                 right |-> OperandType(i, "right")]
    /\ (/\ IsInfixProgram(sample) /\ pc \in {"done", "parse_error", "panicked"}
        /\ {RefType(sample.left), RefType(sample.right)} = {"Integer", "Bool"})
       => /\ InfixProgramDone
          /\ ~result.ok
          /\ result.err = [kind |-> "TypeMismatch", operator |-> sample.op,
                           left |-> RefType(sample.left),
                           right |-> RefType(sample.right)]
    /\ (/\ IsInfixProgram(sample) /\ pc \in {"done", "parse_error", "panicked"}
        /\ RefType(sample.left) = "Bool" /\ RefType(sample.right) = "Bool"
        /\ sample.op \notin {"Eq", "NotEq"})
       => /\ InfixProgramDone
          /\ ~result.ok
          /\ result.err = [kind |-> "UnknownOperator", operator |-> sample.op,
                           left |-> "Bool", right |-> "Bool"]

\* true == 1;  has given TypeMismatch{Eq, Bool, Integer}
C16_Witness ==
    /\ IsInfixProgram(sample)
    /\ sample.op = "Eq" /\ sample.left = "true" /\ sample.right = "one"
    /\ InfixProgramDone
    /\ ~result.ok
    /\ result.err.kind = "TypeMismatch"
    /\ result.err.left = "Bool"
    /\ result.err.right = "Integer"

\* the pairs of operand types that eval_infix_expression has an arm for
TypedPairs ==
    {<<"Integer", "Integer">>, <<"Bool", "Bool">>, <<"Integer", "Bool">>,
     <<"Bool", "Integer">>}

\* C17: for every other pair of operand values, so whenever an operand is a
\* String, Null or a Function, every infix operator gives Null.
C17_OtherOperandsGiveNull ==
    /\ \A i \in InfixApplied :
          <<OperandType(i, "left"), OperandType(i, "right")>> \notin TypedPairs
          => log[i].ok /\ log[i].res.type = "Null"
    /\ (/\ IsInfixProgram(sample) /\ pc \in {"done", "parse_error", "panicked"}
        /\ <<RefType(sample.left), RefType(sample.right)>> \notin TypedPairs)
       => /\ InfixProgramDone
          /\ result.ok
          /\ result.val.type = "Null"

\* "s" == "s";  has given Null
C17_Witness ==
    /\ IsInfixProgram(sample)
    /\ sample.op = "Eq" /\ sample.left = "string" /\ sample.right = "string"
    /\ InfixProgramDone
    /\ result.ok
    /\ result.val.type = "Null"
    /\ \E i \in InfixApplied :
          OperandType(i, "left") = "String" /\ OperandType(i, "right") = "String"

\* event k is the start of the evaluation of expression e by evaluator s
StartsExpression(k, s, e) ==
    /\ k <= Len(log)
    /\ log[k].ev = "expr"
    /\ log[k].self = s
    /\ log[k].expr = e

\* the events that start the evaluation of a call expression
CallStarts == {i \in Events("expr") : log[i].expr.type = "Call"}

\* C18: a call evaluates its arguments from left to right, then the function
\* expression, then applies the function; an argument's error is the result
\* of the call, with no later argument and no function expression evaluated;
\* a callee that is not a Function gives its error after the arguments.
C18_ArgumentsThenFunction ==
    /\ \A i \in CallStarts :
          IF log[i].expr.arguments # <<>>
          THEN StartsExpression(i + 1, log[i].self, log[i].expr.arguments[1])
          ELSE /\ log[i + 1].ev = "args"
               /\ log[i + 1].ok
               /\ log[i + 1].expr = log[i].expr
    /\ \A j \in Events("arg") :
          /\ (log[j].ok /\ log[j].rest # <<>>) =>
                StartsExpression(j + 1, log[j].self, log[j].rest[1])
          /\ (log[j].ok /\ log[j].rest = <<>>) =>
                /\ log[j + 1].ev = "args"
                /\ log[j + 1].ok
                /\ log[j + 1].self = log[j].self
                /\ Len(log[j + 1].res) = log[j].index
                /\ Len(log[j + 1].expr.arguments) = log[j].index
          /\ ~log[j].ok =>
                /\ log[j + 1].ev = "args"
                /\ ~log[j + 1].ok
                /\ log[j + 1].res = log[j].res
                /\ log[j + 1].self = log[j].self
                /\ log[j].index <= Len(log[j + 1].expr.arguments)
                /\ \A k \in (j + 1)..Len(log) :
                      log[k].ev \notin {"expr", "stmt", "callee", "apply"}
    /\ \A j \in Events("args") :
          /\ log[j].ok =>
                /\ Len(log[j].res) = Len(log[j].expr.arguments)
                /\ StartsExpression(j + 1, log[j].self, log[j].expr.function)
          /\ ~log[j].ok =>
                \A k \in (j + 1)..Len(log) :
                    log[k].ev \in {"infix", "arg", "args", "applied", "top"}
                    /\ ~log[k].ok /\ log[k].res = log[j].res
    /\ \A j \in Events("callee") :
          /\ \E a \in Events("args") :
                /\ a < j
                /\ log[a].ok
                /\ log[a].self = log[j].self
                /\ log[a].expr = log[j].expr
          /\ log[j].ok =>
                /\ log[j + 1].ev = "apply"
                /\ log[j + 1].self = log[j].self
                /\ log[j + 1].function = log[j].res
                /\ Len(log[j + 1].args) = Len(log[j].expr.arguments)
                /\ log[j].res.type # "Function" =>
                      /\ log[j + 2].ev = "applied"
                      /\ ~log[j + 2].ok
                      /\ log[j + 2].res.kind = "Unknown"

\* foo(1 + true);  has ended with the argument's TypeMismatch and the unbound
\* callee foo was never read
C18_Witness ==
    /\ pc = "done"
    /\ ~result.ok
    /\ result.err.kind = "TypeMismatch"
    /\ Len(parsed.program) = 1
    /\ parsed.program[1].type = "Expression"
    /\ parsed.program[1].value.type = "Call"
    /\ parsed.program[1].value.function = IdentifierExpr(<<"f", "o", "o">>)
    /\ \E j \in Events("arg") : ~log[j].ok
    /\ Events("callee") = {}
    /\ Events("get") = {}

\* the block { n } of an if program, n a literal's digits
LiteralBlock(digits) == BlockStmt(<<ExpressionStmt(IntegerExpr(digits))>>)

\* whether the condition of an if program is to count as true: every value
\* but Null and false
RefTruthy(shape) == shape \notin {"null", "false"}

\* the statements that event k starts
StartsStatement(k, s, stmt) ==
    /\ k <= Len(log)
    /\ log[k].ev = "stmt"
    /\ log[k].self = s
    /\ log[k].stmt = stmt

\* the blocks evaluated so far
BlocksEvaluated ==
    {log[k].stmt : k \in {j \in Events("stmt") : log[j].stmt.type = "Block"}}

\* C19: an if-expression evaluates its consequence exactly when the
\* condition's value is not Null and not false (0, every string and every
\* function are true); otherwise its alternative if it has one, and else it
\* gives Null; the block not chosen is never evaluated.
C19_IfChoosesByTruthiness ==
    /\ \A j \in Events("if") :
          IF ~(log[j].cond.type = "Null"
               \/ (log[j].cond.type = "Bool" /\ ~log[j].cond.value))
          THEN StartsStatement(j + 1, log[j].self, log[j].expr.consequence)
          ELSE IF log[j].expr.alternative # <<>>
          THEN StartsStatement(j + 1, log[j].self, log[j].expr.alternative[1])
          ELSE ~StartsStatement(j + 1, log[j].self, log[j].expr.consequence)
    /\ (IsIfProgram(sample) /\ pc \in {"done", "parse_error", "panicked"}) =>
          /\ pc = "done"
          /\ result.ok
          /\ IF RefTruthy(sample.condition)
             THEN /\ result.val.type = "Integer" /\ result.val.value = 5
                  /\ BlocksEvaluated = {LiteralBlock(<<"5">>)}
             ELSE IF sample.else
             THEN /\ result.val.type = "Integer" /\ result.val.value = 6
                  /\ BlocksEvaluated = {LiteralBlock(<<"6">>)}
             ELSE /\ result.val.type = "Null"
                  /\ BlocksEvaluated = {}

\* if (0) { 5 } else { 6 };  has given 5 and its alternative was not
\* evaluated
C19_Witness ==
    /\ IsIfProgram(sample)
    /\ sample.condition = "zero" /\ sample.else
    /\ pc = "done"
    /\ result.ok /\ result.val.type = "Integer" /\ result.val.value = 5
    /\ \E j \in Events("if") : log[j].cond.type = "Integer" /\ log[j].cond.value = 0
    /\ LiteralBlock(<<"6">>) \notin BlocksEvaluated

RECURSIVE ScopeChain(_)
\* the cells of the chain of outer links that starts at cell c
ScopeChain(c) ==
    {c} \cup (IF heap[c].outer = <<>> THEN {} ELSE ScopeChain(heap[c].outer[1]))

\* the events before event i that bind name n in a cell of the chain of s
BoundInChain(s, n, i) ==
    {k \in 1..(i - 1) :
        /\ log[k].ev \in {"let", "bind"}
        /\ log[k].self \in ScopeChain(s)
        /\ log[k].name = n}

\* C25: every function application runs in a scope of its own: its cell is
\* no earlier call's, nothing is bound in it when the call begins, and it is
\* the function value's Environment, whose store is empty; so a name is found
\* in a call exactly when a scope of the call's own chain has bound it, and
\* a name bound only in an earlier call is not found in a later one.  Every
\* function value stored in an environment has an empty store.
C25_CallsHaveOwnScope ==
    /\ \A e \in Events("enter") :
          /\ \A d \in Events("enter") : d < e => log[d].self # log[e].self
          /\ \A k \in 1..(e - 1) :
                log[k].ev \in {"let", "bind"} => log[k].self # log[e].self
          /\ DOMAIN log[e].function.env.store = {}
          /\ heap[log[e].self].outer = log[e].function.env.outer
    /\ \A g \in Events("get") :
          /\ log[g].found # <<>> <=> BoundInChain(log[g].self, log[g].name, g) # {}
          /\ log[g].found = <<>> =>
                pc = "done" /\ ~result.ok /\ result.err.kind = "IdentifierNotFound"
    /\ \A c \in DOMAIN heap :
          \A n \in DOMAIN heap[c].store :
              heap[c].store[n].type = "Function" =>
                  DOMAIN heap[c].store[n].env.store = {}

\* a name that a let bound in an earlier call of a function was read in a
\* later call of that function and not found
C25_Witness ==
    /\ pc = "done" /\ ~result.ok /\ result.err.kind = "IdentifierNotFound"
    /\ \E g \in Events("get") :
          /\ log[g].found = <<>>
          /\ IsCallScope(log[g].self)
          /\ \E k \in 1..(g - 1) :
                /\ log[k].ev = "let" /\ log[k].name = log[g].name
                /\ IsCallScope(log[k].self) /\ log[k].self # log[g].self
                /\ heap[log[k].self].outer = heap[log[g].self].outer

\* C26: no Object::Return is bound to a name in an environment, and none is
\* an argument of apply_function or an operand of eval_infix_expression or
\* eval_prefix_expression.
C26_ReturnOnlyFromStatements ==
    /\ \A c \in DOMAIN heap :
          \A n \in DOMAIN heap[c].store : heap[c].store[n].type # "Return"
    /\ \A i \in Events("apply") :
          \A k \in DOMAIN log[i].args : log[i].args[k].type # "Return"
    /\ \A i \in Events("infix") :
          \A k \in DOMAIN log[i].operands :
              log[i].operands[k].ok => log[i].operands[k].res.type # "Return"
    /\ \A i \in Events("prefix") : log[i].right.type # "Return"

\* the calls that have begun and not ended before event k
OpenCalls(k) ==
    {e \in Events("enter") :
        /\ e < k
        /\ ~\E a \in Events("applied") :
               e < a /\ a < k /\ log[a].evaluator = log[e].self}

\* the scope of the innermost call that is open at event k, the global scope
\* when none is
EnclosingScope(k) ==
    IF OpenCalls(k) = {} THEN 1 ELSE log[Max(OpenCalls(k))].self

\* C27: the blocks of an if-expression open no scope.  The cells are the
\* global one and one for each function application; the block that an if
\* chooses is evaluated in the scope that evaluated the if; every let binds
\* in the scope of the innermost open call, or in the global scope when no
\* call is open; and a later read of the name in that scope finds the let's
\* value as long as the scope does not bind the name again.
C27_IfBlocksOpenNoScope ==
    /\ heap # <<>> => Len(heap) = 1 + Cardinality(Events("enter"))
    /\ \A i \in Events("if") :
          (is_truthy(log[i].cond) \/ log[i].expr.alternative # <<>>) =>
              /\ i < Len(log)
              /\ log[i + 1].ev = "stmt"
              /\ log[i + 1].stmt.type = "Block"
              /\ log[i + 1].self = log[i].self
    /\ \A k \in Events("let") :
          /\ log[k].self = EnclosingScope(k)
          /\ \A g \in Events("get") :
                (/\ k < g
                 /\ log[g].self = log[k].self
                 /\ log[g].name = log[k].name
                 /\ Max(Bound(log[k].self, log[k].name, g)) = k)
                => log[g].found = <<log[k].val>>

\* in a call, the alternative block of an if has bound a name by a let, and
\* the statement after the if has read the name in the call's scope and
\* found the let's value
C27_Witness ==
    /\ pc = "done" /\ result.ok
    /\ \E i \in Events("if") :
          /\ IsCallScope(log[i].self)
          /\ ~is_truthy(log[i].cond)
          /\ i + 2 <= Len(log)
          /\ log[i + 2].ev = "stmt" /\ log[i + 2].stmt.type = "Let"
          /\ \E g \in Events("get") :
                /\ g > i + 2
                /\ log[g].self = log[i].self
                /\ log[g].name = log[i + 2].stmt.identifier.value
                /\ log[g].found # <<>>
                /\ log[g].found[1].type = "Integer"
                /\ log[g].found[1].value = 3

RECURSIVE ChainEnds(_, _)
\* The chain of outer links that starts at cell c comes to a cell without
\* outer and to no cell of visited, the cells already passed.
ChainEnds(c, visited) ==
    /\ c \in DOMAIN heap
    /\ c \notin visited
    /\ \/ heap[c].outer = <<>>
       \/ ChainEnds(heap[c].outer[1], visited \cup {c})

\* C29: the chain of outer links that starts at any environment, a cell or
\* the Environment of a stored function value, is finite, has no cycle and
\* ends at an environment without outer; every lookup of an identifier ends
\* with an answer, and none finds a RefCell already borrowed.
C29_OuterChainsEnd ==
    /\ \A c \in DOMAIN heap :
          /\ ChainEnds(c, {})
          /\ \A n \in DOMAIN heap[c].store :
                heap[c].store[n].type = "Function" =>
                    /\ heap[c].store[n].env.outer # <<>>
                    /\ ChainEnds(heap[c].store[n].env.outer[1], {})
    /\ Events("already_borrowed") = {}
    /\ \A i \in Events("expr") :
          log[i].expr.type = "Identifier" =>
              /\ i < Len(log)
              /\ log[i + 1].ev = "get"
              /\ log[i + 1].self = log[i].self

\* a scope holds a function value that captures this same scope, and a call
\* of the function has looked the function's name up through the outer link
C29_Witness ==
    /\ pc = "done"
    /\ \E c \in DOMAIN heap :
          \E n \in DOMAIN heap[c].store :
              /\ heap[c].store[n].type = "Function"
              /\ heap[c].store[n].env.outer = <<c>>
              /\ \E g \in Events("get") :
                    /\ IsCallScope(log[g].self)
                    /\ heap[log[g].self].outer = <<c>>
                    /\ log[g].name = n
                    /\ log[g].found # <<>>
                    /\ log[g].found[1].type = "Function"

\* C24: the shell loop never stops because of the line it runs: the process
\* does not end inside the loop's body, after every line the shell has
\* written the value or the error and is back at the prompt, and the loop is
\* left only when readline gave Interrupted, Eof or another error.
C24_ShellGoesOn ==
    /\ pc # "panicked"
    /\ pc = "exited" => ~sample[idx].ok
    /\ pc \in {"prompt", "exited"} => Len(printed) = idx
    /\ (pc = "prompt" /\ idx > 0) =>
          /\ sample[idx].ok
          /\ printed[idx].to = IF printed[idx].ok THEN "stdout" ELSE "stderr"

\* C28: the shell evaluates every line with a new Evaluator and a new empty
\* global environment: what a line's evaluation finds for a name is bound by
\* this line's own lets and calls, the scopes hold nothing else, and a name
\* bound by an earlier line is IdentifierNotFound.
C28_FreshEvaluatorPerLine ==
    /\ HeapMatchesLog
    /\ \A g \in Events("get") :
          /\ log[g].found # <<>> <=> BoundInChain(log[g].self, log[g].name, g) # {}
          /\ log[g].found = <<>> =>
                ~result.ok /\ result.err.kind = "IdentifierNotFound"
    /\ (/\ pc = "prompt" /\ idx > 1
        /\ sample[idx - 1] = [ok |-> TRUE, line |-> <<"let", "a", "=", "1", ";">>]
        /\ sample[idx] = [ok |-> TRUE, line |-> <<"a", ";">>])
       => /\ ~result.ok
          /\ result.err.kind = "IdentifierNotFound"
          /\ printed[idx] = [to |-> "stderr", ok |-> FALSE, err |-> result.err]

\* the line let a = 1; was evaluated and its value written, then the line a;
\* was evaluated and its error written, and the shell is at the prompt again
C28_Witness ==
    /\ pc = "prompt" /\ idx = 2
    /\ sample[1] = [ok |-> TRUE, line |-> <<"let", "a", "=", "1", ";">>]
    /\ sample[2] = [ok |-> TRUE, line |-> <<"a", ";">>]
    /\ printed[1].to = "stdout" /\ printed[1].val.type = "Null"
    /\ printed[2].to = "stderr"
    /\ \E g \in Events("get") : log[g].found = <<>>

=============================================================================
